---------------------------- MODULE Spec2Model ----------------------------
(***************************************************************************)
(* Model of backend/ml_engine.py: the regex vitals extractor               *)
(* (parse_medical_text) and the risk classifier (analyze_risk), as called  *)
(* by the /analyze_health handler of backend/main.py.                      *)
(*                                                                         *)
(* A text is a sequence of one-character strings.  An optional value       *)
(* (Python's None or a value) is the empty tuple or a one-element tuple.   *)
(***************************************************************************)
EXTENDS Integers, Sequences, FiniteSets, TLC

VARIABLES
    pc,            \* where the request stands: "idle", "fetched", "analyzed", "merged",
                   \* "failed", "trended"
    text_records,  \* the records fetched for the request (argument of analyze_risk)
    features,      \* analyze_risk's local: the dict parse_medical_text returned
    strategy,      \* the branch analyze_risk took: "ml", "rules", "none" ("" before the call)
    input_data,    \* the vector handed to rf_model.predict (None when not called)
    result,        \* the dict analyze_risk returned (None before it returns)
    rf_model,      \* the fitted forest, as far as the requests held in the state have seen
                   \* it: the class it gives each vector they put to it
    earlier,       \* an earlier request, as the caller saw it (None if none is kept)
    others_since,  \* whether another request has been answered since the kept one
    threads,       \* the concurrent runs: each thread's position, the argument of its
                   \* call of analyze_risk and what the call returned
    frames,        \* the local variables of the calls of analyze_risk in progress
    trends,        \* /health_trends: the vitals parsed from each record and the timeline
                   \* built from them (None outside that request)
    order_history, \* get_patient_orders: the rows of orders (with their items) and of
                   \* order_history_raw, and the answer of the call just made
    refill,        \* get_refill_candidates: the patient's orders and raw history, today's date and the answer of the call just made
    pharmacy_chat, \* /pharmacy/chat: where the request stands, the locals of its loops, what it logged and its answer
    chat_sessions, \* main.py line 36: the chat history of each user who has one
    chat_requests, \* /chat: the requests in progress, each with its locals
    chat_count,    \* the /chat requests received so far
    document,      \* process_document: the text of the PDF, the chunks made of it, the rows of document_chunks and the answer
    pharmacy       \* the pharmacy's tables (medicines, orders with their items) and the
                   \* answer of the call of finalize_order just made (None outside one)

\* the variables of the services beside the health analysis
services == << pharmacy, order_history, refill, pharmacy_chat, chat_sessions, chat_requests, chat_count, document >>

\* the variables of the health analysis
analysis == << pc, text_records, features, strategy, input_data, result, rf_model, earlier,
              others_since, threads, frames, trends >>

vars == << analysis, services >>

---------------------------------------------------------------------------
(* Optional values *)

None == << >>

Some(v) == << v >>

IsSome(o) == o # << >>

Val(o) == o[1]

\* the element of a one-element set; Only({ e(x) : x \in { v } }) is e(v) with v
\* worked out once
Only(S) == CHOOSE x \in S : TRUE

---------------------------------------------------------------------------
(* Characters: what str.lower, str.upper, \d, \s and \b see *)

LowerCase == << "a","b","c","d","e","f","g","h","i","j","k","l","m",
                "n","o","p","q","r","s","t","u","v","w","x","y","z" >>

UpperCase == << "A","B","C","D","E","F","G","H","I","J","K","L","M",
                "N","O","P","Q","R","S","T","U","V","W","X","Y","Z" >>

DigitChars == << "0","1","2","3","4","5","6","7","8","9" >>

IsDigit(c) == c \in { "0", "1", "2", "3", "4", "5", "6", "7", "8", "9" }

IsSpace(c) == c \in { " ", "\n", "\t" }

IsLetter(c) == \E k \in 1..26 : LowerCase[k] = c \/ UpperCase[k] = c

IsWord(c) == IsLetter(c) \/ IsDigit(c) \/ c = "_"

LowerChar(c) ==
    IF \E k \in 1..26 : UpperCase[k] = c
    THEN LowerCase[CHOOSE k \in 1..26 : UpperCase[k] = c]
    ELSE c

UpperChar(c) ==
    IF \E k \in 1..26 : LowerCase[k] = c
    THEN UpperCase[CHOOSE k \in 1..26 : LowerCase[k] = c]
    ELSE c

lower(t) == [ i \in 1..Len(t) |-> LowerChar(t[i]) ]

upper(t) == [ i \in 1..Len(t) |-> UpperChar(t[i]) ]

\* str.replace(c, '') for a one-character c
RECURSIVE strip_char(_, _)
strip_char(t, c) ==
    IF t = << >> THEN << >>
    ELSE IF Head(t) = c THEN strip_char(Tail(t), c)
    ELSE << Head(t) >> \o strip_char(Tail(t), c)

\* the value of the first n digits of ds
RECURSIVE IntOfPrefix(_, _)
IntOfPrefix(ds, n) ==
    IF n = 0 THEN 0
    ELSE 10 * IntOfPrefix(ds, n - 1) + ((CHOOSE k \in 1..10 : DigitChars[k] = ds[n]) - 1)

\* int(s) for a string of decimal digits
int(ds) == IntOfPrefix(ds, Len(ds))

\* str(n) for n >= 0, as an f-string renders an int
RECURSIVE str(_)
str(n) ==
    IF n < 10 THEN << DigitChars[n + 1] >>
    ELSE str(n \div 10) \o << DigitChars[(n % 10) + 1] >>

---------------------------------------------------------------------------
(* Pieces of the regular expressions, positions counted from 1 *)

\* the literal w stands in t at position i
HasAt(t, i, w) ==
    /\ i >= 1
    /\ i + Len(w) - 1 <= Len(t)
    /\ SubSeq(t, i, i + Len(w) - 1) = w

\* \d{n}: n digits stand in t at position i
DigitsAt(t, i, n) ==
    /\ i >= 1
    /\ i + n - 1 <= Len(t)
    /\ \A k \in i..(i + n - 1) : IsDigit(t[k])

\* [^\d]* followed by a digit: the position of the first digit at or after j
\* (the greedy run can only stop there), 0 when there is none
FirstDigit(t, j) ==
    IF \E d \in j..Len(t) : IsDigit(t[d])
    THEN CHOOSE d \in j..Len(t) : IsDigit(t[d]) /\ \A e \in j..(d - 1) : ~IsDigit(t[e])
    ELSE 0

\* \s* followed by a non-space: the position after the greedy run of spaces from i
SkipSpaces(t, i) ==
    IF \E k \in i..Len(t) : ~IsSpace(t[k])
    THEN CHOOSE k \in i..Len(t) : ~IsSpace(t[k]) /\ \A e \in i..(k - 1) : IsSpace(t[e])
    ELSE Len(t) + 1

\* the first alternative of alts (in order) that stands at i, as << word >>, else None
FirstAltAt(t, i, alts) ==
    IF \E a \in 1..Len(alts) : HasAt(t, i, alts[a])
    THEN Some(alts[CHOOSE a \in 1..Len(alts) :
                      HasAt(t, i, alts[a]) /\ \A b \in 1..(a - 1) : ~HasAt(t, i, alts[b])])
    ELSE None

\* [^\d]*(\d{lo,hi}) anchored at j: the group, greedy, as << digits >>, else None
NumberAfter(t, j, lo, hi) ==
    LET d == FirstDigit(t, j)
    IN  IF d = 0 \/ ~DigitsAt(t, d, lo) THEN None
        ELSE LET n == CHOOSE n \in lo..hi :
                          DigitsAt(t, d, n) /\ (n = hi \/ ~DigitsAt(t, d, n + 1))
             IN  Some(SubSeq(t, d, d + n - 1))

\* (?:label1|label2|...)[^\d]*(\d{lo,hi}) anchored at i
LabelledAt(t, i, labels, lo, hi) ==
    LET lab == FirstAltAt(t, i, labels)
    IN  IF ~IsSome(lab) THEN None
        ELSE NumberAfter(t, i + Len(Val(lab)), lo, hi)

---------------------------------------------------------------------------
(* parse_medical_text: the seven extraction rules *)

\* a faulty variant of CleanChar (C19 must fail on it): the case of a letter is
\* swapped, not lowered
CleanChar_CaseSwapped(c) ==
    IF c \in { ":", "-", "\n", "*", "#" } THEN " "
    ELSE IF LowerChar(c) # c THEN LowerChar(c)
    ELSE UpperChar(c)

\* line 46, one character: lower-cased, then ':', '-', newline, '*', '#' become a
\* space (a space is none of the characters a later replace looks for)
CleanChar(c) ==
    IF LowerChar(c) \in { ":", "-", "\n", "*", "#" } THEN " " ELSE LowerChar(c)

\* line 46: text_data.lower().replace(':', ' ').replace('-', ' ').replace('\n', ' ')
\*          .replace('*', ' ').replace('#', ' ')
clean(text_data) == [ i \in 1..Len(text_data) |-> CleanChar(text_data[i]) ]

\* line 53: (?:bp|pressure)?[^\d]*(\d{2,3})\s*/\s*(\d{2,3}) after the optional label,
\* anchored at j: << group 1, group 2 >> wrapped, else None.  Group 1 is tried with
\* three digits before two; group 2 takes three digits when they are there.
BpNumbersAt(t, j) ==
    LET d == FirstDigit(t, j)
        Rest(n) == LET k == SkipSpaces(t, d + n)
                       m == SkipSpaces(t, k + 1)
                   IN  IF DigitsAt(t, d, n) /\ HasAt(t, k, << "/" >>) /\ DigitsAt(t, m, 2)
                       THEN Some(<< SubSeq(t, d, d + n - 1),
                                    SubSeq(t, m, IF DigitsAt(t, m, 3) THEN m + 2 ELSE m + 1) >>)
                       ELSE None
    IN  IF d = 0 THEN None
        ELSE IF IsSome(Rest(3)) THEN Rest(3)
        ELSE Rest(2)

\* the whole BP pattern anchored at i: with the label when it stands there and the
\* rest matches, else without it
BpAt(t, i) ==
    LET lab == FirstAltAt(t, i, << <<"b","p">>, <<"p","r","e","s","s","u","r","e">> >>)
    IN  IF IsSome(lab) /\ IsSome(BpNumbersAt(t, i + Len(Val(lab))))
        THEN BpNumbersAt(t, i + Len(Val(lab)))
        ELSE BpNumbersAt(t, i)

\* a faulty variant of bp_match (C12 must fail on it): the last match, not the first
bp_match_Last(t) ==
    IF \E i \in 1..(Len(t) + 1) : IsSome(BpAt(t, i))
    THEN BpAt(t, CHOOSE i \in 1..(Len(t) + 1) :
                  IsSome(BpAt(t, i)) /\ \A h \in (i + 1)..(Len(t) + 1) : ~IsSome(BpAt(t, h)))
    ELSE None

bp_match(t) ==
    IF \E i \in 1..(Len(t) + 1) : IsSome(BpAt(t, i))
    THEN BpAt(t, CHOOSE i \in 1..(Len(t) + 1) :
                  IsSome(BpAt(t, i)) /\ \A h \in 1..(i - 1) : ~IsSome(BpAt(t, h)))
    ELSE None

SugarLabels == << <<"s","u","g","a","r">>, <<"g","l","u","c","o","s","e">>,
                  <<"r","b","s">>, <<"f","b","s">>, <<"p","p","b","s">>,
                  <<"l","e","v","e","l","s">>, <<"l","e","v","e","l">> >>

\* line 59: (?:sugar|glucose|rbs|fbs|ppbs|levels?)[^\d]*(\d{2,3})
sugar_match(t) ==
    IF \E i \in 1..(Len(t) + 1) : IsSome(LabelledAt(t, i, SugarLabels, 2, 3))
    THEN LabelledAt(t, CHOOSE i \in 1..(Len(t) + 1) :
                  IsSome(LabelledAt(t, i, SugarLabels, 2, 3)) /\ \A h \in 1..(i - 1) : ~IsSome(LabelledAt(t, h, SugarLabels, 2, 3)), SugarLabels, 2, 3)
    ELSE None

HrLabels == << <<"h","r">>, <<"p","u","l","s","e">>, <<"r","a","t","e">>, <<"b","p","m">> >>

\* line 64: (?:hr|pulse|rate|bpm)[^\d]*(\d{2,3})
hr_match(t) ==
    IF \E i \in 1..(Len(t) + 1) : IsSome(LabelledAt(t, i, HrLabels, 2, 3))
    THEN LabelledAt(t, CHOOSE i \in 1..(Len(t) + 1) :
                  IsSome(LabelledAt(t, i, HrLabels, 2, 3)) /\ \A h \in 1..(i - 1) : ~IsSome(LabelledAt(t, h, HrLabels, 2, 3)), HrLabels, 2, 3)
    ELSE None

AgeLabels == << <<"a","g","e">>, <<"o","l","d">> >>

\* line 70: (?:age|old)[^\d]*(\d{1,2})
age_match(t) ==
    IF \E i \in 1..(Len(t) + 1) : IsSome(LabelledAt(t, i, AgeLabels, 1, 2))
    THEN LabelledAt(t, CHOOSE i \in 1..(Len(t) + 1) :
                  IsSome(LabelledAt(t, i, AgeLabels, 1, 2)) /\ \A h \in 1..(i - 1) : ~IsSome(LabelledAt(t, h, AgeLabels, 1, 2)), AgeLabels, 1, 2)
    ELSE None

\* (\d{2,3})\s*(?:unit1|unit2) anchored at i: three digits are tried before two
UnitAt(t, i, units) ==
    LET Try(n) == DigitsAt(t, i, n) /\ IsSome(FirstAltAt(t, SkipSpaces(t, i + n), units))
    IN  IF Try(3) THEN Some(SubSeq(t, i, i + 2))
        ELSE IF Try(2) THEN Some(SubSeq(t, i, i + 1))
        ELSE None

HeightUnits == << <<"c","m">>, <<"c","e","n","t","i","m","e","t","e","r","s">> >>

\* line 75: (\d{2,3})\s*(?:cm|centimeters)
height_match(t) ==
    IF \E i \in 1..(Len(t) + 1) : IsSome(UnitAt(t, i, HeightUnits))
    THEN UnitAt(t, CHOOSE i \in 1..(Len(t) + 1) :
                  IsSome(UnitAt(t, i, HeightUnits)) /\ \A h \in 1..(i - 1) : ~IsSome(UnitAt(t, h, HeightUnits)), HeightUnits)
    ELSE None

WeightUnits == << <<"k","g">>, <<"k","i","l","o","g","r","a","m","s">> >>

\* line 80: (\d{2,3})\s*(?:kg|kilograms)
weight_match(t) ==
    IF \E i \in 1..(Len(t) + 1) : IsSome(UnitAt(t, i, WeightUnits))
    THEN UnitAt(t, CHOOSE i \in 1..(Len(t) + 1) :
                  IsSome(UnitAt(t, i, WeightUnits)) /\ \A h \in 1..(i - 1) : ~IsSome(UnitAt(t, h, WeightUnits)), WeightUnits)
    ELSE None

\* \b before a word character at i
WordStartAt(t, i) == i = 1 \/ ~IsWord(t[i - 1])

\* the alternatives of (a|b|ab|o), in the order the pattern tries them
GroupAlts == << <<"a">>, <<"b">>, <<"a","b">>, <<"o">> >>

\* the literal w stands in t at position i, letter case ignored (w is lower-case)
HasAtNoCase(t, i, w) ==
    /\ i >= 1
    /\ i + Len(w) - 1 <= Len(t)
    /\ lower(SubSeq(t, i, i + Len(w) - 1)) = w

\* \s?[\+\-] at k: the position of the sign, with one whitespace character before
\* it when that matches, else with none; 0 when neither does
SignEnd(t, k) ==
    IF k + 1 <= Len(t) /\ IsSpace(t[k]) /\ t[k + 1] \in { "+", "-" } THEN k + 1
    ELSE IF k <= Len(t) /\ t[k] \in { "+", "-" } THEN k
    ELSE 0

\* line 86: \b(a|b|ab|o)\s?[\+\-] with re.IGNORECASE, anchored at i: group(0), the
\* whole matched text, from the first alternative (in order) that matches
BgSymbolAt(t, i) ==
    IF i > Len(t) \/ ~WordStartAt(t, i) THEN None
    ELSE IF \E a \in 1..Len(GroupAlts) :
                HasAtNoCase(t, i, GroupAlts[a]) /\ SignEnd(t, i + Len(GroupAlts[a])) # 0
    THEN Only({ Some(SubSeq(t, i, SignEnd(t, i + Len(GroupAlts[a])))) :
                a \in { CHOOSE a \in 1..Len(GroupAlts) :
                          /\ HasAtNoCase(t, i, GroupAlts[a])
                          /\ SignEnd(t, i + Len(GroupAlts[a])) # 0
                          /\ \A b \in 1..(a - 1) :
                                ~(HasAtNoCase(t, i, GroupAlts[b])
                                  /\ SignEnd(t, i + Len(GroupAlts[b])) # 0) } })
    ELSE None

bg_match(t) ==
    IF \E i \in 1..(Len(t) + 1) : IsSome(BgSymbolAt(t, i))
    THEN BgSymbolAt(t, CHOOSE i \in 1..(Len(t) + 1) :
                  IsSome(BgSymbolAt(t, i)) /\ \A h \in 1..(i - 1) : ~IsSome(BgSymbolAt(t, h)))
    ELSE None

SignWords == << <<"p","o","s","i","t","i","v","e">>, <<"n","e","g","a","t","i","v","e">> >>

\* (a|b|ab|o) alternative a, then \s+(positive|negative), anchored at i: the sign
\* word as << word >>, else None
SignWordAfter(t, i, a) ==
    IF HasAt(t, i, GroupAlts[a])
       /\ i + Len(GroupAlts[a]) <= Len(t) /\ IsSpace(t[i + Len(GroupAlts[a])])
    THEN FirstAltAt(t, SkipSpaces(t, i + Len(GroupAlts[a])), SignWords)
    ELSE None

\* line 91: \b(a|b|ab|o)\s+(positive|negative) anchored at i: << group 1, group 2 >>
BgWordAt(t, i) ==
    IF i > Len(t) \/ ~WordStartAt(t, i) THEN None
    ELSE IF \E a \in 1..Len(GroupAlts) : IsSome(SignWordAfter(t, i, a))
    THEN Only({ Some(<< GroupAlts[a], Val(SignWordAfter(t, i, a)) >>) :
                a \in { CHOOSE a \in 1..Len(GroupAlts) :
                          /\ IsSome(SignWordAfter(t, i, a))
                          /\ \A b \in 1..(a - 1) : ~IsSome(SignWordAfter(t, i, b)) } })
    ELSE None

bg_word_match(t) ==
    IF \E i \in 1..(Len(t) + 1) : IsSome(BgWordAt(t, i))
    THEN BgWordAt(t, CHOOSE i \in 1..(Len(t) + 1) :
                  IsSome(BgWordAt(t, i)) /\ \A h \in 1..(i - 1) : ~IsSome(BgWordAt(t, h)))
    ELSE None

\* lines 86-95: the symbol form on the original text, else the word form on the
\* cleaned text
blood_group(text_data, clean_text) ==
    Only({ IF IsSome(sym) THEN Some(strip_char(upper(Val(sym)), " "))
           ELSE Only({ IF IsSome(wrd)
                       THEN Some(upper(Val(wrd)[1])
                                 \o (IF Val(wrd)[2] = SignWords[1] THEN << "+" >> ELSE << "-" >>))
                       ELSE None :
                       wrd \in { bg_word_match(clean_text) } }) :
           sym \in { bg_match(text_data) } })

\* an optional digit string as an optional int
OptInt(m) == IF IsSome(m) THEN Some(int(Val(m))) ELSE None

\* a faulty variant of Numbers (C3 must fail on it): the second group of the BP
\* match is never stored
Numbers_DiastolicDropped(clean_text) ==
    Only({ [ systolic   |-> IF IsSome(bp) THEN Some(int(Val(bp)[1])) ELSE None,
             diastolic  |-> None,
             sugar      |-> OptInt(sugar),
             heart_rate |-> OptInt(hr),
             age        |-> OptInt(age),
             height     |-> OptInt(height),
             weight     |-> OptInt(weight) ] :
           bp     \in { bp_match(clean_text) },
           sugar  \in { sugar_match(clean_text) },
           hr     \in { hr_match(clean_text) },
           age    \in { age_match(clean_text) },
           height \in { height_match(clean_text) },
           weight \in { weight_match(clean_text) } })

\* lines 53-82: the numeric fields, from the cleaned text
Numbers(clean_text) ==
    Only({ [ systolic   |-> IF IsSome(bp) THEN Some(int(Val(bp)[1])) ELSE None,
             diastolic  |-> IF IsSome(bp) THEN Some(int(Val(bp)[2])) ELSE None,
             sugar      |-> OptInt(sugar),
             heart_rate |-> OptInt(hr),
             age        |-> OptInt(age),
             height     |-> OptInt(height),
             weight     |-> OptInt(weight) ] :
           bp     \in { bp_match(clean_text) },
           sugar  \in { sugar_match(clean_text) },
           hr     \in { hr_match(clean_text) },
           age    \in { age_match(clean_text) },
           height \in { height_match(clean_text) },
           weight \in { weight_match(clean_text) } })

\* lines 27-98
parse_medical_text(text_data) ==
    Only({ [ systolic    |-> n.systolic,
             diastolic   |-> n.diastolic,
             sugar       |-> n.sugar,
             heart_rate  |-> n.heart_rate,
             age         |-> n.age,
             height      |-> n.height,
             weight      |-> n.weight,
             blood_group |-> bg ] :
           n  \in { Only({ Numbers(clean_text) : clean_text \in { clean(text_data) } }) },
           bg \in { Only({ blood_group(text_data, clean_text) :
                           clean_text \in { clean(text_data) } }) } })

---------------------------------------------------------------------------
(* analyze_risk *)

\* a faulty variant of join (C13 must fail on it): the later record comes first
RECURSIVE join_LaterFirst(_)
join_LaterFirst(recs) ==
    IF recs = << >> THEN << >>
    ELSE IF Len(recs) = 1 THEN recs[1]
    ELSE join_LaterFirst(Tail(recs)) \o << " " >> \o recs[1]

\* line 107: " ".join(text_records) if text_records else ""
RECURSIVE join(_)
join(recs) ==
    IF recs = << >> THEN << >>
    ELSE IF Len(recs) = 1 THEN recs[1]
    ELSE recs[1] \o << " " >> \o join(Tail(recs))

\* lines 116-118
has_bp(f) == IsSome(f.systolic) /\ IsSome(f.diastolic)

has_sugar(f) == IsSome(f.sugar)

has_age(f) == IsSome(f.age)

\* a faulty variant of Strategy (C1 must fail on it): sugar alone does not reach the
\* rule ladder
Strategy_SugarAloneIgnored(f) ==
    IF has_bp(f) /\ has_sugar(f) /\ has_age(f) THEN "ml"
    ELSE IF has_bp(f) THEN "rules"
    ELSE "none"

\* lines 121, 136, 160: the branch taken
Strategy(f) ==
    IF has_bp(f) /\ has_sugar(f) /\ has_age(f) THEN "ml"
    ELSE IF has_bp(f) \/ has_sugar(f) THEN "rules"
    ELSE "none"

\* line 123: the heart rate put into the vector when none was extracted
DefaultHeartRate == 72

\* a faulty variant of InputData (C14 must fail on it): no default for the heart
\* rate, the component is left out when it was not extracted
InputData_NoDefault(f) ==
    << Val(f.systolic), Val(f.diastolic), Val(f.sugar) >>
    \o (IF IsSome(f.heart_rate) THEN << Val(f.heart_rate) >> ELSE << >>)
    \o << Val(f.age) >>

\* lines 123-130: [Systolic, Diastolic, Sugar, HR, Age]
InputData(f) ==
    << Val(f.systolic), Val(f.diastolic), Val(f.sugar),
       IF IsSome(f.heart_rate) THEN Val(f.heart_rate) ELSE DefaultHeartRate,
       Val(f.age) >>

\* line 21: the labels the forest was fitted on, hence the classes predict returns
Classes == { 0, 1, 2 }

\* a faulty variant of PredictClasses (C4 must fail on it): the forest returns a
\* label status_map has no entry for
PredictClasses_UnknownLabel(model, vec) == { 3 }

\* a faulty variant of PredictClasses (C8 must fail on it): the forest may give a
\* vector another class each time, as if it were fitted again
PredictClasses_Refitted(model, vec) == Classes

\* lines 24-25, 131: rf_model is fitted once at import with random_state = 42 and
\* predict does not change it, so a vector gets the same class every time; which
\* class the forest gives a vector is not fixed by this repository
PredictClasses(model, vec) ==
    IF vec \in DOMAIN model THEN { model[vec] } ELSE Classes

\* lines 132, 157
status_map == (0 :> "Healthy") @@ (1 :> "Warning") @@ (2 :> "Critical")

\* a faulty variant of BpRisk (C7 must fail on it): the comparisons turned round
BpRisk_TurnedRound(sys, dia) ==
    IF sys >= 180 \/ dia >= 120 THEN 0
    ELSE IF sys >= 140 \/ dia >= 90 THEN 1
    ELSE 2

\* lines 144-147: the BP rung of the ladder
BpRisk(sys, dia) ==
    IF sys >= 180 \/ dia >= 120 THEN 2
    ELSE IF sys >= 140 \/ dia >= 90 THEN 1
    ELSE 0

\* lines 152-155: the sugar rung of the ladder
SugarRisk(sug) ==
    IF sug >= 200 THEN 2
    ELSE IF sug >= 140 THEN 1
    ELSE 0

max(a, b) == IF a >= b THEN a ELSE b

\* a faulty variant of RuleRisk (C15 must fail on it): an age of 40 or more makes
\* the level Critical
RuleRisk_AgeEscalates(f) ==
    LET r0 == 0
        r1 == IF has_bp(f) THEN max(r0, BpRisk(Val(f.systolic), Val(f.diastolic))) ELSE r0
        r2 == IF has_sugar(f) THEN max(r1, SugarRisk(Val(f.sugar))) ELSE r1
        r3 == IF has_age(f) /\ Val(f.age) >= 40 THEN 2 ELSE r2
    IN  r3

\* a faulty variant of RuleRisk (C2 must fail on it): the sugar rung overwrites
\* current_risk instead of raising it
RuleRisk_SugarOverwrites(f) ==
    LET r0 == 0
        r1 == IF has_bp(f) THEN max(r0, BpRisk(Val(f.systolic), Val(f.diastolic))) ELSE r0
        r2 == IF has_sugar(f) THEN SugarRisk(Val(f.sugar)) ELSE r1
    IN  r2

\* lines 138-155: current_risk when the ladder ends
RuleRisk(f) ==
    LET r0 == 0
        r1 == IF has_bp(f) THEN max(r0, BpRisk(Val(f.systolic), Val(f.diastolic))) ELSE r0
        r2 == IF has_sugar(f) THEN max(r1, SugarRisk(Val(f.sugar))) ELSE r1
    IN  r2

\* truth value of an optional int in an if: None and 0 are false
Truthy(o) == IsSome(o) /\ Val(o) # 0

\* line 166
BpString(f) ==
    IF Truthy(f.systolic) /\ Truthy(f.diastolic)
    THEN Some(str(Val(f.systolic)) \o << "/" >> \o str(Val(f.diastolic)))
    ELSE None

\* a faulty variant of VitalsDetected (C5 must fail on it): height is not echoed
VitalsDetected_HeightDropped(f) ==
    [ bp          |-> BpString(f),
      sugar       |-> f.sugar,
      heart_rate  |-> f.heart_rate,
      height      |-> None,
      weight      |-> f.weight,
      age         |-> f.age,
      blood_group |-> f.blood_group ]

\* lines 165-174
VitalsDetected(f) ==
    [ bp          |-> BpString(f),
      sugar       |-> f.sugar,
      heart_rate  |-> f.heart_rate,
      height      |-> f.height,
      weight      |-> f.weight,
      age         |-> f.age,
      blood_group |-> f.blood_group ]

\* lines 113, 133, 158, 161: risk_status of the branch; prediction is used by "ml" only
RiskStatus(f, prediction) ==
    CASE Strategy(f) = "ml"    -> status_map[prediction]
      [] Strategy(f) = "rules" -> status_map[RuleRisk(f)]
      [] OTHER                 -> "Insufficient Data"

\* lines 163-175
Returned(f, prediction) ==
    [ risk_level |-> RiskStatus(f, prediction), vitals_detected |-> VitalsDetected(f) ]

---------------------------------------------------------------------------
(* The inputs: what get_patient_records may hand to analyze_risk *)

\* the longest list of records a request fetches
MaxRecords == 2

\* the longest list of records in the runs that keep an earlier request
MaxHistoryRecords == 1

Phrases == <<
    <<"B","P"," ","1","2","0","/","8","0">>,                                  \* 'BP 120/80'
    <<"b","p",":"," ","1","5","0","/","8","5">>,                              \* 'bp: 150/85'
    <<"0","0","/","9","5">>,                                                  \* '00/95'
    <<"p","r","e","s","s","u","r","e"," ","1","9","0"," ","/"," ","8","0">>,  \* 'pressure 190 / 80'
    <<"1","3","0","/","1","2","5"," ","p","u","l","s","e"," ","8","0">>,      \* '130/125 pulse 80'
    <<"S","u","g","a","r",":"," ","9","0">>,                                  \* 'Sugar: 90'
    <<"g","l","u","c","o","s","e"," ","1","5","0">>,                          \* 'glucose 150'
    <<"r","b","s"," ","2","0","0">>,                                          \* 'rbs 200'
    <<"a","g","e"," ","1","0","5">>,                                          \* 'age 105'
    <<"1","5","0","0","/","9","0">>,                                          \* '1500/90'
    <<"a","g","e"," ","u","n","k","n","o","w","n">>,                          \* 'age unknown'
    <<"A","g","e",":"," ","7",","," ","7","0"," ","k","g"," ","1","7","5","c","m">>,
                                                                              \* 'Age: 7, 70 kg 175cm'
    <<"B","l","o","o","d"," ","G","r","o","u","p",":"," ","O","+">>,          \* 'Blood Group: O+'
    <<"T","y","p","e"," ","B","\n","-"," ","n","o","n","e">>,                 \* 'Type B', newline, '- none'
    <<"a","b"," ","n","e","g","a","t","i","v","e">>,                          \* 'ab negative'
    << >>,                                                                    \* ''
    <<"B","P"," ","1","5","0","/","9","0",","," ","s","u","g","a","r"," ","2","0","0",",",
      " ","a","g","e"," ","4","5">>                                           \* 'BP 150/90, sugar 200, age 45'
>>

HistoryPhrases == <<
    \* 'bp 150/95'
    <<"b","p"," ","1","5","0","/","9","5">>,
    \* 'bp 120/80 sugar 150'
    <<"b","p"," ","1","2","0","/","8","0"," ","s","u","g","a","r"," ","1","5","0">>,
    \* 'bp 190/125 sugar 150'
    <<"b","p"," ","1","9","0","/","1","2","5"," ","s","u","g","a","r"," ","1","5","0">>,
    \* 'bp 90/60 sugar 80 age 22'
    <<"b","p"," ","9","0","/","6","0"," ","s","u","g","a","r"," ","8","0"," ","a","g","e"," ","2","2">>,
    \* 'bp 120/80 sugar 80 age 22'
    <<"b","p"," ","1","2","0","/","8","0"," ","s","u","g","a","r"," ","8","0"," ","a","g","e"," ","2","2">>,
    \* 'bp 150/95 age 45 hr 80 70kg 175cm O+'
    <<"b","p"," ","1","5","0","/","9","5"," ","a","g","e"," ","4","5"," ","h","r"," ","8","0",
      " ","7","0","k","g"," ","1","7","5","c","m"," ","O","+">>,
    \* 'sugar 90 glucose 150'
    <<"s","u","g","a","r"," ","9","0"," ","g","l","u","c","o","s","e"," ","1","5","0">>
>>

\* every list of at most n records, each one of the phrases
RecordLists(phrases, n) ==
    UNION { [ 1..k -> { phrases[i] : i \in 1..Len(phrases) } ] : k \in 0..n }

\* each phrase stored as two records, cut at one of its spaces
Splits(phrases) ==
    UNION { { << SubSeq(phrases[i], 1, k - 1), SubSeq(phrases[i], k + 1, Len(phrases[i])) >> :
              k \in { k \in 1..Len(phrases[i]) : phrases[i][k] = " " } } :
            i \in 1..Len(phrases) }

Inputs == RecordLists(Phrases, MaxRecords)

\* the pharmacy's tables in the runs: two medicines, one order that can be created and
\* an id that no order has
\* the pages of a PDF
MaxPages == 2

\* the chunk sizes process_document is called with; its callers leave the parameter at
\* its default of 500, and the runs use sizes that split the short texts they have
MaxChunkSize == 3

\* what extract_text gives for a page: nothing, blanks, or text
PageTexts == { << >>, << " " >>, << "a" >>, << "a", "b" >>, << "a", " ", "b" >> }

\* the /chat requests that may be in progress together
ChatRequests == { "a", "b" }

\* the users who send a user_id; a request without one is anonymous
ChatUsers == { "u1" }

\* the messages sent: a greeting and a question
ChatMessages == { "hi", "my head hurts" }

\* the /chat requests of a run
MaxChats == 3

\* five exchanges of a user with the model
FiveExchanges ==
    [ i \in 1..10 |-> IF i % 2 = 1 THEN [ role |-> "user", parts |-> << "my head hurts" >> ]
                                   ELSE [ role |-> "model", parts |-> << "reply" >> ] ]

Medicines == { "m1", "m2" }

OrderIds == { "o1" }

UnknownOrderId == "o0"

\* the largest stock of a medicine at the start and the largest quantity of an item
MaxUnits == 2

\* the most items of an order
MaxItems == 2

\* a column that may be null: None, or the value wrapped
PrescriptionFlags == { None, Some(FALSE), Some(TRUE) }

MedicineTables ==
    { [ m \in Medicines |-> [ name |-> m, stock |-> stock[m],
                              prescription_required |-> flag[m] ] ] :
        stock \in [ Medicines -> 0..MaxUnits ], flag \in [ Medicines -> PrescriptionFlags ] }

\* the rows get_patient_orders reads: two orders and two rows of order_history_raw at
\* most, of a patient with a UUID, of another one, and of an external id
HistoryOrderIds == { "o1", "o2" }

RawIds == { "r1", "r2" }

Uuid(digit) == [ i \in 1..36 |-> IF i \in { 9, 14, 19, 24 } THEN "-" ELSE digit ]

ExternalId == << "P", "A", "T", "0", "0", "2" >>

\* 36 characters without a hyphen
NotQuiteUuid == [ i \in 1..36 |-> "3" ]

\* the latest created_at and purchase_date of a row
MaxTime == 2

\* the largest limit a caller gives
MaxLimit == 2

\* pharmacy_orchestrator.py line 23: the limit when the parameters give none
DefaultLimit == 50

OrderRows ==
    [ patient_id : { Uuid("1"), Uuid("2") }, status : { "draft" }, created_at : 1..MaxTime,
      order_items : 0..2 ]

RawRows == [ patient_external_id : { Uuid("1"), ExternalId }, purchase_date : 1..MaxTime ]

\* the rows get_refill_candidates reads, with dates in days from today (now is day 0):
\* purchases whose 30 days ran out, run out within the week, or run out later
RefillRawIds == { "r1" }

MedicineNames == { "aspirin", "insulin" }

PurchaseDays == { 0 - 35, 0 - 25, 0 - 15 }

\* pharmacy_service.py line 277: days_ahead when the caller gives none, as main.py does
DefaultDaysAhead == 7

\* lines 302 and 326: the days a purchase lasts when the item says nothing
DefaultDaysSupply == 30

RefillOrderRows ==
    [ patient_id : { Uuid("1") }, status : { "draft", "finalized" },
      finalized_at : PurchaseDays, medicine_name : MedicineNames,
      days_supply : { None, Some(0), Some(20) } ]

RefillRawRows ==
    [ patient_external_id : { Uuid("1"), ExternalId }, product_name : MedicineNames,
      purchase_date : PurchaseDays ]

DraftItems ==
    UNION { [ 1..k -> [ medicine_id : Medicines, qty : 1..MaxUnits ] ] : k \in 0..MaxItems }

HistoryInputs == RecordLists(HistoryPhrases, MaxHistoryRecords) \cup Splits(HistoryPhrases)

---------------------------------------------------------------------------
(* A request that calls analyze_risk: /analyze_health of main.py and of app.py *)

\* the forest as far as the vectors in D go
Restrict(model, D) == [ v \in (D \cap DOMAIN model) |-> model[v] ]

\* the request as its caller saw it
ThisCall ==
    [ text_records |-> text_records,
      features     |-> Val(features),
      strategy     |-> strategy,
      input_data   |-> input_data,
      result       |-> Val(result) ]

\* the vectors a kept request put to the forest
VectorsOf(kept) == IF IsSome(kept) /\ IsSome(Val(kept).input_data)
                   THEN { Val(Val(kept).input_data) } ELSE {}

\* the most requests a threaded server (app.py line 236) runs at the same time
NumThreads == 2

Threads == 1..NumThreads

IdleThread == [ pc |-> "idle", text_records |-> << >>, result |-> None ]

\* a frame of analyze_risk before its locals are assigned
NoLocals == [ features |-> None, risk_status |-> None ]

AnalysisInit ==
    /\ pc = "idle"
    /\ text_records = << >>
    /\ features = None
    /\ strategy = ""
    /\ input_data = None
    /\ result = None
    /\ rf_model = Restrict(<< >>, {})
    /\ earlier = None
    /\ others_since = FALSE
    /\ threads = [ p \in Threads |-> IdleThread ]
    /\ frames = [ q \in Threads |-> NoLocals ]
    /\ trends = None

\* the services before any call of theirs: tables without orders and without history
PharmacyIdle ==
    pharmacy = [ medicines |-> [ m \in Medicines |->
                                   [ name |-> m, stock |-> MaxUnits,
                                     prescription_required |-> None ] ],
                 orders    |-> [ o \in OrderIds |-> None ],
                 finalized |-> None,
                 drafted   |-> None ]

OrderHistoryIdle ==
    order_history = [ orders            |-> [ o \in HistoryOrderIds |-> None ],
                      order_history_raw |-> [ r \in RawIds |-> None ],
                      returned          |-> None ]

NoDocument == [ pc |-> "idle", full_text |-> << >>, chunk_size |-> 1, chunks |-> << >>,
                extracted_text |-> None, document_chunks |-> << >>, returned |-> None ]

DocumentIdle == document = NoDocument

\* line 36: chat_sessions = {}
ChatSessionsIdle == chat_sessions = << >>

ChatCountIdle == chat_count = 0

NoChatRequest == [ pc |-> "idle", user_id |-> None, message |-> "", recent_history |-> << >>,
                   prompt |-> None, ai_text |-> None, answer |-> None ]

ChatRequestsIdle == chat_requests = [ r \in ChatRequests |-> NoChatRequest ]

PharmacyChatIdle ==
    pharmacy_chat = [ pc |-> "idle", language |-> "en", use_voice |-> FALSE, attempt |-> 0,
                      sends |-> 0, iteration |-> 0, tools_called |-> 0, response |-> "none",
                      error_msg |-> << >>, log |-> {}, answer |-> None ]

RefillIdle ==
    refill = [ orders            |-> [ o \in HistoryOrderIds |-> None ],
               order_history_raw |-> [ r \in RefillRawIds |-> None ],
               returned          |-> None ]

Init ==
    /\ AnalysisInit
    /\ DocumentIdle
    /\ ChatCountIdle
    /\ ChatRequestsIdle
    /\ ChatSessionsIdle
    /\ PharmacyChatIdle
    /\ RefillIdle
    /\ PharmacyIdle
    /\ OrderHistoryIdle

\* main.py line 711, app.py lines 205-218: the caller has the records it will hand to
\* analyze_risk, any list of strings
FetchRecords(inputs) ==
    /\ pc = "idle"
    /\ text_records' \in inputs
    /\ pc' = "fetched"
    /\ UNCHANGED << features, strategy, input_data, result, rf_model, earlier, others_since >>
    /\ UNCHANGED << threads, frames, trends, services >>

\* lines 132-133: status_map[prediction_index] raises KeyError for an index that is
\* not one of its keys
RaisesKeyError(f, prediction) == Strategy(f) = "ml" /\ prediction \notin DOMAIN status_map

\* ml_engine.py lines 100-175: what a call of analyze_risk(text_records) may come
\* to under the forest `model`: its locals when it ends, whether it raised, the
\* dict returned and the forest with the class it gave the vector
analyze_risk(model, recs) ==
    UNION { UNION { { [ features   |-> f,
                        strategy   |-> Strategy(f),
                        input_data |-> IF Strategy(f) = "ml" THEN Some(InputData(f)) ELSE None,
                        raised     |-> RaisesKeyError(f, prediction),
                        result     |-> IF RaisesKeyError(f, prediction) THEN None
                                       ELSE Some(Returned(f, prediction)),
                        rf_model   |-> IF Strategy(f) = "ml"
                                       THEN (InputData(f) :> prediction) @@ model
                                       ELSE model ] :
                      prediction \in (IF Strategy(f) = "ml"
                                      THEN PredictClasses(model, InputData(f)) ELSE { 0 }) } :
                    f \in { parse_medical_text(full_text) } } :
            full_text \in { join(recs) } }

\* main.py line 719, app.py line 224: analysis_result = analyze_risk(text_records);
\* an exception goes to the handler's except branch
AnalyzeRisk ==
    /\ pc = "fetched"
    /\ \E out \in analyze_risk(rf_model, text_records) :
           /\ features' = Some(out.features)
           /\ strategy' = out.strategy
           /\ input_data' = out.input_data
           /\ result' = out.result
           /\ rf_model' = out.rf_model
           /\ pc' = IF out.raised THEN "failed" ELSE "analyzed"
    /\ UNCHANGED << text_records, earlier, others_since, threads, frames, trends, services >>

\* main.py lines 763-767: what the handler may get from Gemini: None when the call or
\* json.loads raises (lines 800-806), else the "extracted_vitals" of the answer, each
\* entry a string or null
GeminiAnswers ==
    { None,
      Some([ bp          |-> Some(<< "1","2","0","/","8","0" >>),
             sugar       |-> Some(<< "1","1","0"," ","m","g","/","d","L" >>),
             heart_rate  |-> Some(<< "7","2" >>),
             weight      |-> Some(<< "7","0"," ","k","g" >>),
             age         |-> Some(<< "3","5" >>),
             blood_group |-> Some(<< "O","+" >>) ]),
      Some([ bp          |-> None,
             sugar       |-> Some(<< "n","o","r","m","a","l" >>),
             heart_rate  |-> None,
             weight      |-> None,
             age         |-> Some(<< "a","b","o","u","t"," ","4","0" >>),
             blood_group |-> None ]) }

\* main.py line 783: re.findall(r'\d+', str(val)), the first element when there is one
FirstNumber(val) ==
    IF FirstDigit(val, 1) = 0 THEN None
    ELSE Some(SubSeq(val, FirstDigit(val, 1),
                     CHOOSE e \in FirstDigit(val, 1)..Len(val) :
                         /\ \A k \in FirstDigit(val, 1)..e : IsDigit(val[k])
                         /\ (e = Len(val) \/ ~IsDigit(val[e + 1]))))

NumericKeys == { "sugar", "heart_rate", "weight", "age" }

\* main.py line 776: not analysis_result['vitals_detected'].get(key): the field is
\* None, or the number 0, or the empty string
Falsy(key, o) ==
    \/ o = None
    \/ IF key \in NumericKeys THEN Val(o) = 0 ELSE Val(o) = << >>

\* a faulty variant of update_if_missing (C17 must fail on it): the answer's value
\* replaces the field whether or not it holds one
update_if_missing_Always(vitals, key, val) ==
    IF val = None \/ Val(val) = << >> THEN vitals
    ELSE IF key \in NumericKeys
    THEN IF FirstNumber(Val(val)) = None THEN vitals
         ELSE [ vitals EXCEPT ![key] = Some(int(Val(FirstNumber(Val(val))))) ]
    ELSE [ vitals EXCEPT ![key] = val ]

\* main.py lines 775-790: vitals_detected after update_if_missing(key, val)
update_if_missing(vitals, key, val) ==
    IF ~Falsy(key, vitals[key]) \/ val = None \/ Val(val) = << >> THEN vitals
    ELSE IF key \in NumericKeys
    THEN IF FirstNumber(Val(val)) = None THEN vitals
         ELSE [ vitals EXCEPT ![key] = Some(int(Val(FirstNumber(Val(val))))) ]
    ELSE [ vitals EXCEPT ![key] = val ]

\* main.py lines 792-797: the six calls, in order
MergedVitals(vitals, g) ==
    update_if_missing(
      update_if_missing(
        update_if_missing(
          update_if_missing(
            update_if_missing(
              update_if_missing(vitals, "bp", g.bp),
              "sugar", g.sugar),
            "heart_rate", g.heart_rate),
          "weight", g.weight),
        "age", g.age),
      "blood_group", g.blood_group)

\* main.py lines 722-806: the handler asks Gemini and merges the vitals of its answer
\* into analysis_result['vitals_detected'], in place; app.py has no such step
MergeGeminiVitals ==
    /\ pc = "analyzed"
    /\ \E answer \in GeminiAnswers :
           result' = IF answer = None THEN result
                     ELSE Some([ Val(result) EXCEPT !.vitals_detected =
                                    MergedVitals(Val(result).vitals_detected, Val(answer)) ])
    /\ pc' = "merged"
    /\ UNCHANGED << text_records, features, strategy, input_data, rf_model, earlier,
                    others_since, threads, frames, trends, services >>

\* main.py lines 403-411: the entry a record adds to the timeline, None when none of
\* systolic, sugar, heart_rate, weight was found
TimelineEntry(vitals) ==
    IF vitals.systolic = None /\ vitals.sugar = None /\ vitals.heart_rate = None
       /\ vitals.weight = None
    THEN None
    ELSE Some([ systolic   |-> vitals.systolic,
                diastolic  |-> vitals.diastolic,
                sugar      |-> vitals.sugar,
                heart_rate |-> vitals.heart_rate,
                weight     |-> vitals.weight ])

\* main.py lines 397-411, /health_trends: each record is cleaned as line 46 cleans it
\* and then handed to parse_medical_text, which cleans it again
GetHealthTrends ==
    /\ pc = "fetched"
    /\ \E vitals \in { [ i \in 1..Len(text_records) |->
                            parse_medical_text(clean(text_records[i])) ] } :
           trends' = Some([ vitals   |-> vitals,
                            timeline |-> [ i \in 1..Len(text_records) |->
                                              TimelineEntry(vitals[i]) ] ])
    /\ pc' = "trended"
    /\ UNCHANGED << text_records, features, strategy, input_data, result, rf_model, earlier,
                    others_since, threads, frames, services >>

\* the request ends and its locals go; of the forest the state goes on holding the
\* class it gave the kept request's vector
EndRequest(kept) ==
    /\ pc' = "idle"
    /\ text_records' = << >>
    /\ features' = None
    /\ strategy' = ""
    /\ input_data' = None
    /\ result' = None
    /\ rf_model' = Restrict(rf_model, VectorsOf(kept))
    /\ earlier' = kept
    /\ trends' = None
    /\ UNCHANGED << threads, frames, services >>

\* the response (or the error) is returned
Respond ==
    /\ pc \in { "analyzed", "merged", "failed", "trended" }
    /\ EndRequest(earlier)
    /\ others_since' = IsSome(earlier)

\* the response is returned and the caller keeps it to compare later ones with
RespondAndKeep ==
    /\ pc = "analyzed"
    /\ EndRequest(Some(ThisCall))
    /\ others_since' = FALSE

Next ==
    \/ FetchRecords(Inputs)
    \/ AnalyzeRisk
    \/ MergeGeminiVitals
    \/ GetHealthTrends
    \/ Respond

Spec == Init /\ [][Next]_vars

NextHistory ==
    \/ FetchRecords(HistoryInputs)
    \/ AnalyzeRisk
    \/ Respond
    \/ RespondAndKeep

HistorySpec == Init /\ [][NextHistory]_vars

---------------------------------------------------------------------------
(* Concurrent requests: app.py serves /analyze_health on one thread per request, so
   calls of analyze_risk interleave between any two of their steps *)

\* a faulty variant of Frame (C16 must fail on it): every call keeps its locals in the
\* same place, as module-level variables would be
Frame_Shared(p) == 1

\* ml_engine.py lines 107-161: features and risk_status are locals of analyze_risk,
\* so each call in progress has a frame of its own
Frame(p) == p

\* the requests that arrive together: one record each, with all the classifier needs
ConcurrentInputs ==
    { recs \in HistoryInputs : Len(recs) = 1 /\ Strategy(parse_medical_text(recs[1])) = "ml" }

\* what NextConcurrent leaves alone: the variables of the one-request runs
SequentialUnchanged ==
    UNCHANGED << pc, text_records, features, strategy, input_data, result, earlier,
                 others_since, trends, services >>

\* app.py line 224: a thread calls analyze_risk(text_records)
Call(p) ==
    /\ threads[p].pc = "idle"
    /\ \E recs \in ConcurrentInputs :
           threads' = [ threads EXCEPT ![p] = [ pc |-> "called", text_records |-> recs,
                                                result |-> None ] ]
    /\ UNCHANGED << frames, rf_model >>
    /\ SequentialUnchanged

\* ml_engine.py lines 107-110: full_text and features
Parse(p) ==
    /\ threads[p].pc = "called"
    /\ frames' = [ frames EXCEPT ![Frame(p)].features =
                       Some(parse_medical_text(join(threads[p].text_records))) ]
    /\ threads' = [ threads EXCEPT ![p].pc = "parsed" ]
    /\ UNCHANGED rf_model
    /\ SequentialUnchanged

\* ml_engine.py lines 113-161: risk_status, on the classifier branch from
\* rf_model.predict; reading a local that holds nothing raises
Assess(p) ==
    /\ threads[p].pc = "parsed"
    /\ IF frames[Frame(p)].features = None
       THEN /\ threads' = [ threads EXCEPT ![p].pc = "raised" ]
            /\ UNCHANGED << frames, rf_model >>
       ELSE /\ \E f \in { Val(frames[Frame(p)].features) } :
                 \E prediction \in (IF Strategy(f) = "ml"
                                     THEN PredictClasses(rf_model, InputData(f)) ELSE { 0 }) :
                     /\ frames' = [ frames EXCEPT ![Frame(p)].risk_status =
                                        Some(RiskStatus(f, prediction)) ]
                     /\ rf_model' = IF Strategy(f) = "ml"
                                    THEN (InputData(f) :> prediction) @@ rf_model
                                    ELSE rf_model
            /\ threads' = [ threads EXCEPT ![p].pc = "assessed" ]
    /\ SequentialUnchanged

\* ml_engine.py lines 163-175: the dict is built from the locals and returned, and
\* the call's locals are gone
Return(p) ==
    /\ threads[p].pc = "assessed"
    /\ IF frames[Frame(p)].features = None \/ frames[Frame(p)].risk_status = None
       THEN threads' = [ threads EXCEPT ![p].pc = "raised" ]
       ELSE threads' = [ threads EXCEPT ![p].pc = "returned",
                                        ![p].result =
                            Some([ risk_level      |-> Val(frames[Frame(p)].risk_status),
                                   vitals_detected |->
                                       VitalsDetected(Val(frames[Frame(p)].features)) ]) ]
    /\ frames' = [ frames EXCEPT ![Frame(p)] = NoLocals ]
    /\ UNCHANGED rf_model
    /\ SequentialUnchanged

\* app.py lines 225-233: the thread answers its request (with the analysis, or with
\* status 500 after an exception) and is free again
Finish(p) ==
    /\ threads[p].pc \in { "returned", "raised" }
    /\ threads' = [ threads EXCEPT ![p] = IdleThread ]
    /\ UNCHANGED << frames, rf_model >>
    /\ SequentialUnchanged

NextConcurrent ==
    \E p \in Threads : Call(p) \/ Parse(p) \/ Assess(p) \/ Return(p) \/ Finish(p)

ConcurrentSpec == Init /\ [][NextConcurrent]_vars

---------------------------------------------------------------------------
(* The pharmacy: create_order_draft and finalize_order of pharmacy_service.py, over
   the tables the service reads and writes through the database client *)

AnalysisUnchanged ==
    UNCHANGED << analysis, order_history, refill, pharmacy_chat, chat_sessions, chat_requests, chat_count, document >>

PharmacyInit ==
    /\ AnalysisInit
    /\ DocumentIdle
    /\ ChatCountIdle
    /\ ChatRequestsIdle
    /\ ChatSessionsIdle
    /\ PharmacyChatIdle
    /\ RefillIdle
    /\ pharmacy \in { [ medicines |-> table,
                        orders    |-> [ o \in OrderIds |-> None ],
                        finalized |-> None,
                        drafted   |-> None ] : table \in MedicineTables }
    /\ OrderHistoryIdle

\* which call of the database client raises in a call of the service: the first, the
\* second, ... (finalize_order makes two and one more for each item), or none (0)
Faults == 0..(MaxItems + 2)

NoFaults == { 0 }

\* pharmacy_service.py lines 138-186: create_order_draft; the orders table (each order
\* with its order_items rows) after the call and what it returned.  The order row is
\* inserted under an id the database gives (line 148), then the item rows (line 166);
\* an insert that raises, or an order insert that returns no data, ends the call with
\* success False.
create_order_draft(orders, order_id, items, fault) ==
    IF fault = 1
    THEN [ orders   |-> orders,
           returned |-> [ success |-> FALSE, error |-> "insert orders" ] ]
    ELSE IF fault = 2
    THEN [ orders   |-> [ orders EXCEPT ![order_id] =
                            Some([ status |-> "draft", total_items |-> Len(items),
                                   order_items |-> << >> ]) ],
           returned |-> [ success |-> FALSE, error |-> "insert order_items" ] ]
    ELSE [ orders   |-> [ orders EXCEPT ![order_id] =
                            Some([ status |-> "draft", total_items |-> Len(items),
                                   order_items |-> items ]) ],
           returned |-> [ order_id |-> order_id, status |-> "draft",
                          total_items |-> Len(items), items |-> items ] ]

\* the orchestrator's create_order_draft (lines 28-36) hands patient, items and channel on
CreateOrderDraft(faults) ==
    /\ pharmacy.finalized = None
    /\ pharmacy.drafted = None
    /\ \E order_id \in { o \in OrderIds : pharmacy.orders[o] = None }, items \in DraftItems,
          fault \in faults :
          \E call \in { create_order_draft(pharmacy.orders, order_id, items, fault) } :
              pharmacy' = [ pharmacy EXCEPT !.orders = call.orders,
                                            !.drafted = Some(call.returned) ]
    /\ AnalysisUnchanged

\* the caller has the answer of create_order_draft
DraftReturned ==
    /\ pharmacy.drafted # None
    /\ pharmacy' = [ pharmacy EXCEPT !.drafted = None ]
    /\ AnalysisUnchanged

\* lines 194-196: the order with its items, each with its medicine's name, stock and
\* prescription_required; None when no order has the id
FetchOrder(medicines, orders, order_id) ==
    IF order_id \notin DOMAIN orders \/ orders[order_id] = None
    THEN None
    ELSE Some([ id          |-> order_id,
                order_items |-> [ i \in 1..Len(Val(orders[order_id]).order_items) |->
                    [ medicine_id |-> Val(orders[order_id]).order_items[i].medicine_id,
                      qty         |-> Val(orders[order_id]).order_items[i].qty,
                      medicines   |->
                          medicines[Val(orders[order_id]).order_items[i].medicine_id] ] ] ])

\* a faulty variant of SafetyChecks (C20 must fail on it): the prescription is not
\* looked at
RECURSIVE SafetyChecks_StockOnly(_)
SafetyChecks_StockOnly(order_items) ==
    IF order_items = << >>
    THEN << >>
    ELSE (IF Head(order_items).medicines.stock < Head(order_items).qty
          THEN << [ code            |-> "insufficient_stock",
                    medicine_id     |-> Head(order_items).medicine_id,
                    name            |-> Head(order_items).medicines.name,
                    available_stock |-> Head(order_items).medicines.stock,
                    requested_qty   |-> Head(order_items).qty ] >>
          ELSE << >>)
         \o SafetyChecks_StockOnly(Tail(order_items))

\* lines 202-223: the problems list after the loop over the items; an item adds
\* insufficient_stock when its medicine's stock is below its qty, and then
\* prescription_missing when med.get("prescription_required") is truthy
RECURSIVE SafetyChecks(_)
SafetyChecks(order_items) ==
    IF order_items = << >>
    THEN << >>
    ELSE (IF Head(order_items).medicines.stock < Head(order_items).qty
          THEN << [ code            |-> "insufficient_stock",
                    medicine_id     |-> Head(order_items).medicine_id,
                    name            |-> Head(order_items).medicines.name,
                    available_stock |-> Head(order_items).medicines.stock,
                    requested_qty   |-> Head(order_items).qty ] >>
          ELSE << >>)
         \o (IF Head(order_items).medicines.prescription_required = Some(TRUE)
             THEN << [ code        |-> "prescription_missing",
                       medicine_id |-> Head(order_items).medicine_id,
                       name        |-> Head(order_items).medicines.name ] >>
             ELSE << >>)
         \o SafetyChecks(Tail(order_items))

\* line 239: the call of the database function decrement_medicine_stock with med_id
\* and amount; the function is not part of the backend's files and is taken to do what
\* its name and its arguments say
decrement_medicine_stock(medicines, med_id, amount) ==
    [ medicines EXCEPT ![med_id].stock = @ - amount ]

\* lines 237-244: the loop over the items, one call of decrement_medicine_stock each
RECURSIVE DecrementStock(_, _)
DecrementStock(medicines, order_items) ==
    IF order_items = << >>
    THEN medicines
    ELSE DecrementStock(decrement_medicine_stock(medicines, Head(order_items).medicine_id,
                                                 Head(order_items).qty),
                        Tail(order_items))

\* lines 240-244: what the answer says of each item
FinalizedItems(order_items) ==
    [ i \in 1..Len(order_items) |-> [ medicine_id |-> order_items[i].medicine_id,
                                      name        |-> order_items[i].medicines.name,
                                      qty         |-> order_items[i].qty ] ]

\* lines 252-254: what finalize_order returns when a call of the database client raised
Excepted(order_id, message) ==
    [ order_id |-> order_id, status |-> "failed",
      problems |-> << [ code |-> "exception", message |-> message ] >> ]

\* lines 188-254: finalize_order; the tables after the call and what it returned.  The
\* calls of the database client are the select (194-196), the update (233-235) and one
\* decrement_medicine_stock for each item (239); the one numbered fault raises and has
\* no effect, and the except of line 252 answers.  The timestamp finalized_at is left out.
finalize_order(medicines, orders, order_id, fault) ==
    LET order_res == FetchOrder(medicines, orders, order_id) IN
    IF fault = 1
    THEN [ medicines |-> medicines,
           orders    |-> orders,
           returned  |-> Excepted(order_id, "select") ]
    ELSE IF order_res = None
    THEN [ medicines |-> medicines,
           orders    |-> orders,
           returned  |-> [ order_id |-> order_id, status |-> "failed",
                           problems |-> << [ code |-> "order_not_found" ] >> ] ]
    ELSE LET order    == Val(order_res)
             problems == SafetyChecks(order.order_items)
             updated  == [ orders EXCEPT ![order_id] =
                             Some([ Val(@) EXCEPT !.status = "finalized" ]) ]
         IN  IF problems # << >>
             THEN [ medicines |-> medicines,
                    orders    |-> orders,
                    returned  |-> [ order_id |-> order_id, status |-> "failed",
                                    problems |-> problems ] ]
             ELSE IF fault = 2
             THEN [ medicines |-> medicines,
                    orders    |-> orders,
                    returned  |-> Excepted(order_id, "update") ]
             ELSE IF fault \in 3..(Len(order.order_items) + 2)
             THEN [ medicines |-> DecrementStock(medicines,
                                                 SubSeq(order.order_items, 1, fault - 3)),
                    orders    |-> updated,
                    returned  |-> Excepted(order_id, "rpc") ]
             ELSE [ medicines |-> DecrementStock(medicines, order.order_items),
                    orders    |-> updated,
                    returned  |-> [ order_id |-> order_id, status |-> "finalized",
                                    problems |-> << >>,
                                    items    |-> FinalizedItems(order.order_items) ] ]

\* pharmacy_orchestrator.py lines 38-44: finalize_order with the order_id of the
\* parameters, which may be the id of no order
FinalizeOrder(faults) ==
    /\ pharmacy.finalized = None
    /\ pharmacy.drafted = None
    /\ \E order_id \in OrderIds \cup { UnknownOrderId }, fault \in faults :
          \E call \in { finalize_order(pharmacy.medicines, pharmacy.orders, order_id, fault) } :
              pharmacy' = [ pharmacy EXCEPT !.medicines = call.medicines,
                                            !.orders = call.orders,
                                            !.finalized = Some(call.returned) ]
    /\ AnalysisUnchanged

\* the caller has the answer of finalize_order
FinalizeReturned ==
    /\ pharmacy.finalized # None
    /\ pharmacy' = [ pharmacy EXCEPT !.finalized = None ]
    /\ AnalysisUnchanged

\* the calls of the service one after the other, over a database that answers every call
NextPharmacy ==
    \/ CreateOrderDraft(NoFaults)
    \/ DraftReturned
    \/ FinalizeOrder(NoFaults)
    \/ FinalizeReturned

PharmacySpec == PharmacyInit /\ [][NextPharmacy]_vars

\* the same over a database whose calls may raise
NextPharmacyFaults ==
    \/ CreateOrderDraft(Faults)
    \/ DraftReturned
    \/ FinalizeOrder(Faults)
    \/ FinalizeReturned

PharmacyFaultSpec == PharmacyInit /\ [][NextPharmacyFaults]_vars

---------------------------------------------------------------------------
(* The order history: get_patient_orders of pharmacy_service.py *)

OrderHistoryInit ==
    /\ AnalysisInit
    /\ DocumentIdle
    /\ ChatCountIdle
    /\ ChatRequestsIdle
    /\ ChatSessionsIdle
    /\ PharmacyChatIdle
    /\ RefillIdle
    /\ PharmacyIdle
    /\ order_history \in [ orders            : [ HistoryOrderIds -> { None } \cup
                                                   { Some(row) : row \in OrderRows } ],
                           order_history_raw : [ RawIds -> { None } \cup
                                                   { Some(row) : row \in RawRows } ],
                           returned          : { None } ]

\* line 70 (and line 18): len(patient_id) == 36 and patient_id.count('-') == 4
is_uuid(patient_id) ==
    Len(patient_id) = 36 /\ Cardinality({ i \in 1..36 : patient_id[i] = "-" }) = 4

\* .order(key, desc=True) over the rows that pass the filter: any order of them in
\* which no row comes before a row with a later key (rows with one key come in an order
\* the database chooses)
OrderedDesc(ids, key) ==
    { q \in [ 1..Cardinality(ids) -> ids ] :
        /\ \A i, j \in 1..Cardinality(ids) : i # j => q[i] # q[j]
        /\ \A i, j \in 1..Cardinality(ids) : i < j => key[q[i]] >= key[q[j]] }

\* .limit(limit)
Limited(q, limit) == SubSeq(q, 1, IF limit < Len(q) THEN limit ELSE Len(q))

\* lines 72-77: what the query on orders may answer
StandardQuery(orders, patient_id, limit) ==
    LET mine == { o \in DOMAIN orders :
                    orders[o] # None /\ Val(orders[o]).patient_id = patient_id }
    IN  { Limited(q, limit) :
            q \in OrderedDesc(mine, [ o \in mine |-> Val(orders[o]).created_at ]) }

\* lines 103-108: what the query on order_history_raw may answer
RawQuery(order_history_raw, patient_id, limit) ==
    LET mine == { r \in DOMAIN order_history_raw :
                    /\ order_history_raw[r] # None
                    /\ Val(order_history_raw[r]).patient_external_id = patient_id }
    IN  { Limited(q, limit) :
            q \in OrderedDesc(mine, [ r \in mine |-> Val(order_history_raw[r]).purchase_date ]) }

\* lines 80-100: one entry for each item of each order of the answer, in their order
RECURSIVE FlattenOrders(_, _)
FlattenOrders(orders, standard_res) ==
    IF standard_res = << >>
    THEN << >>
    ELSE [ k \in 1..Val(orders[Head(standard_res)]).order_items |->
             [ order_id      |-> << "order", Head(standard_res) >>,
               status        |-> Val(orders[Head(standard_res)]).status,
               created_at    |-> Val(orders[Head(standard_res)]).created_at,
               order_item_id |-> << "item", Head(standard_res), k >> ] ]
         \o FlattenOrders(orders, Tail(standard_res))

\* lines 111-129: one entry for each row of the raw history
FlattenRaw(order_history_raw, raw_res) ==
    [ i \in 1..Len(raw_res) |->
        [ order_id      |-> << "raw", raw_res[i] >>,
          status        |-> "history_import",
          created_at    |-> Val(order_history_raw[raw_res[i]]).purchase_date,
          order_item_id |-> << "raw_item", raw_res[i] >> ] ]

\* line 132: flattened.sort(key=lambda x: x["created_at"], reverse=True), a stable sort:
\* entries with one created_at keep their order
RECURSIVE SortByCreatedAtDesc(_)
SortByCreatedAtDesc(flattened) ==
    IF flattened = << >>
    THEN << >>
    ELSE LET last   == flattened[Len(flattened)]
             before == SortByCreatedAtDesc(SubSeq(flattened, 1, Len(flattened) - 1))
             Later(e) == e.created_at >= last.created_at
             Earlier(e) == e.created_at < last.created_at
         IN  SelectSeq(before, Later) \o << last >> \o SelectSeq(before, Earlier)

\* lines 64-136: get_patient_orders, given what the two queries answered; a query that
\* raises (fault) ends the call with the empty list (lines 134-136)
get_patient_orders(orders, order_history_raw, patient_id, limit, standard_res, raw_res, fault) ==
    IF fault
    THEN << >>
    ELSE Limited(SortByCreatedAtDesc(
                    (IF is_uuid(patient_id) THEN FlattenOrders(orders, standard_res)
                                            ELSE << >>)
                    \o FlattenRaw(order_history_raw, raw_res)), limit)

\* pharmacy_orchestrator.py lines 17-26: get_patient_orders of the orchestrator; a call
\* without patient_id (None here) is answered with the empty list, a call without limit
\* takes 50
GetPatientOrders ==
    /\ order_history.returned = None
    /\ \E patient_id \in { None, Uuid("1"), ExternalId, NotQuiteUuid },
          limit \in 0..MaxLimit \cup { DefaultLimit }, fault \in BOOLEAN :
          IF patient_id = None
          THEN order_history' = [ order_history EXCEPT !.returned =
                   Some([ patient_id |-> patient_id, limit |-> limit, fault |-> fault,
                          entries |-> << >> ]) ]
          ELSE \E standard_res \in StandardQuery(order_history.orders, patient_id, limit),
                  raw_res \in RawQuery(order_history.order_history_raw, patient_id, limit) :
                  order_history' = [ order_history EXCEPT !.returned =
                      Some([ patient_id |-> patient_id, limit |-> limit, fault |-> fault,
                             entries |-> get_patient_orders(order_history.orders,
                                             order_history.order_history_raw, patient_id,
                                             limit, standard_res, raw_res, fault) ]) ]
    /\ UNCHANGED << analysis, pharmacy, refill, pharmacy_chat, chat_sessions, chat_requests, chat_count, document >>

\* the caller has the list
OrdersReturned ==
    /\ order_history.returned # None
    /\ order_history' = [ order_history EXCEPT !.returned = None ]
    /\ UNCHANGED << analysis, pharmacy, refill, pharmacy_chat, chat_sessions, chat_requests, chat_count, document >>

NextOrderHistory ==
    \/ GetPatientOrders
    \/ OrdersReturned

OrderHistorySpec == OrderHistoryInit /\ [][NextOrderHistory]_vars

---------------------------------------------------------------------------
(* The refill alerts: get_refill_candidates of pharmacy_service.py, called by
   /pharmacy/refill-alerts of main.py.  An order has one item here. *)

RefillInit ==
    /\ AnalysisInit
    /\ DocumentIdle
    /\ ChatCountIdle
    /\ ChatRequestsIdle
    /\ ChatSessionsIdle
    /\ PharmacyChatIdle
    /\ PharmacyIdle
    /\ OrderHistoryIdle
    /\ refill \in [ orders            : [ HistoryOrderIds -> { None } \cup
                                            { Some(row) : row \in RefillOrderRows } ],
                    order_history_raw : [ RefillRawIds -> { None } \cup
                                            { Some(row) : row \in RefillRawRows } ],
                    returned          : { None } ]

\* a query without .order(): the rows that pass the filter, in an order the database
\* chooses
InAnyOrder(ids) ==
    { q \in [ 1..Cardinality(ids) -> ids ] :
        \A i, j \in 1..Cardinality(ids) : i # j => q[i] # q[j] }

\* lines 288-292: the patient's finalized orders
FinalizedOrdersQuery(orders, patient_id) ==
    InAnyOrder({ o \in DOMAIN orders :
                   /\ orders[o] # None
                   /\ Val(orders[o]).patient_id = patient_id
                   /\ Val(orders[o]).status = "finalized" })

\* lines 315-318: the patient's rows of the raw history
RawHistoryQuery(order_history_raw, patient_id) ==
    InAnyOrder({ r \in DOMAIN order_history_raw :
                   /\ order_history_raw[r] # None
                   /\ Val(order_history_raw[r]).patient_external_id = patient_id })

\* line 302: item.get("days_supply") or 30
DaysSupply(days_supply) ==
    IF days_supply = None \/ days_supply = Some(0) THEN DefaultDaysSupply ELSE Val(days_supply)

\* lines 305-311 and 329-335: the entry of a candidate
Candidate(med_name, runout_date, now) ==
    [ medicine_name |-> med_name, runout_date |-> runout_date, days_left |-> runout_date - now ]

\* lines 294-311: the loop over the orders of the answer; the candidates and the names
\* seen after it
RECURSIVE CheckOrders(_, _, _, _, _, _)
CheckOrders(orders, response, now, threshold, candidates, seen_medicines) ==
    IF response = << >>
    THEN [ candidates |-> candidates, seen_medicines |-> seen_medicines ]
    ELSE LET order       == Val(orders[Head(response)])
             med_name    == order.medicine_name
             runout_date == order.finalized_at + DaysSupply(order.days_supply)
         IN  IF med_name \in seen_medicines
             THEN CheckOrders(orders, Tail(response), now, threshold, candidates,
                              seen_medicines)
             ELSE CheckOrders(orders, Tail(response), now, threshold,
                              IF now <= runout_date /\ runout_date <= threshold
                              THEN Append(candidates, Candidate(med_name, runout_date, now))
                              ELSE candidates,
                              seen_medicines \cup { med_name })

\* lines 320-335: the loop over the rows of the raw history
RECURSIVE CheckRaw(_, _, _, _, _, _)
CheckRaw(order_history_raw, raw_response, now, threshold, candidates, seen_medicines) ==
    IF raw_response = << >>
    THEN candidates
    ELSE LET raw         == Val(order_history_raw[Head(raw_response)])
             med_name    == raw.product_name
             runout_date == raw.purchase_date + DefaultDaysSupply
         IN  IF med_name \in seen_medicines
             THEN CheckRaw(order_history_raw, Tail(raw_response), now, threshold, candidates,
                           seen_medicines)
             ELSE CheckRaw(order_history_raw, Tail(raw_response), now, threshold,
                           IF now <= runout_date /\ runout_date <= threshold
                           THEN Append(candidates, Candidate(med_name, runout_date, now))
                           ELSE candidates,
                           seen_medicines \cup { med_name })

\* lines 277-340: get_refill_candidates, given what the two queries answered; a query
\* that raises (fault) ends the call with the empty list
get_refill_candidates(tables, patient_id, days_ahead, response, raw_response, fault) ==
    IF fault
    THEN << >>
    ELSE LET now       == 0
             threshold == now + days_ahead
             standard  == IF is_uuid(patient_id)
                          THEN CheckOrders(tables.orders, response, now, threshold, << >>, {})
                          ELSE [ candidates |-> << >>, seen_medicines |-> {} ]
         IN  CheckRaw(tables.order_history_raw, raw_response, now, threshold,
                      standard.candidates, standard.seen_medicines)

\* main.py lines 821-825: /pharmacy/refill-alerts/{patient_id}
GetRefillAlerts ==
    /\ refill.returned = None
    /\ \E patient_id \in { Uuid("1"), ExternalId }, fault \in BOOLEAN :
          \E response \in FinalizedOrdersQuery(refill.orders, patient_id),
             raw_response \in RawHistoryQuery(refill.order_history_raw, patient_id) :
             refill' = [ refill EXCEPT !.returned =
                 Some([ patient_id |-> patient_id,
                        alerts |-> get_refill_candidates(refill, patient_id,
                                       DefaultDaysAhead, response, raw_response, fault) ]) ]
    /\ UNCHANGED << analysis, pharmacy, order_history, pharmacy_chat, chat_sessions, chat_requests, chat_count, document >>

\* the caller has the alerts
RefillAlertsReturned ==
    /\ refill.returned # None
    /\ refill' = [ refill EXCEPT !.returned = None ]
    /\ UNCHANGED << analysis, pharmacy, order_history, pharmacy_chat, chat_sessions, chat_requests, chat_count, document >>

NextRefill ==
    \/ GetRefillAlerts
    \/ RefillAlertsReturned

RefillSpec == RefillInit /\ [][NextRefill]_vars

---------------------------------------------------------------------------
(* The pharmacy agent: /pharmacy/chat of main.py *)

\* main.py lines 242 and 305: the attempts of a send
max_retries == 3

\* line 267: the turns of the tool loop
max_iterations == 5

\* the messages of the exceptions send_message raises in the runs
ErrorMessages == {
    << "4", "2", "9", " ", "T", "o", "o", " ", "M", "a", "n", "y" >>,
    << "Q", "u", "o", "t", "a", " ", "e", "x", "c", "e", "e", "d", "e", "d" >>,
    << "R", "E", "S", "O", "U", "R", "C", "E", "_", "E", "X", "H", "A", "U", "S", "T", "E", "D" >>,
    << "r", "e", "s", "o", "u", "r", "c", "e", "_", "e", "x", "h", "a", "u", "s", "t", "e", "d" >>,
    << "5", "0", "0", " ", "i", "n", "t", "e", "r", "n", "a", "l" >> }

\* what a value raised outside a send says (json.dumps, an index out of range, .text of
\* a response that is a function call)
OtherError == << "V", "a", "l", "u", "e", "E", "r", "r", "o", "r" >>

\* the operator `in` of two strings
In(w, t) == \E i \in 1..Len(t) : HasAt(t, i, w)

\* a faulty variant of IsRateLimit (C27 must fail on it): every error is retried
IsRateLimit_AnyError(error_msg) == TRUE

\* lines 253, 320 and 376: "429" in error_msg or "quota" in error_msg.lower() or
\* "RESOURCE_EXHAUSTED" in error_msg
IsRateLimit(error_msg) ==
    \/ In(<< "4", "2", "9" >>, error_msg)
    \/ In(<< "q", "u", "o", "t", "a" >>, lower(error_msg))
    \/ In(<< "R", "E", "S", "O", "U", "R", "C", "E", "_", "E", "X", "H", "A", "U", "S", "T", "E", "D" >>,
          error_msg)

\* what send_message may do: answer with text, with a function call, with a response
\* without candidates, or raise
SendOutcomes == { << "text" >>, << "function_call" >>, << "blocked" >> }
                  \cup { << "raises", m >> : m \in ErrorMessages }

\* lines 247-261 and 305-328: one attempt of a send inside its retry loop; a response
\* ends the loop, a rate-limit error is retried while attempts are left, and any other
\* error, or the last attempt's, is raised to the handler's except
SendAttempt(c, outcome, next_pc) ==
    IF outcome[1] # "raises"
    THEN [ c EXCEPT !.sends = @ + 1, !.response = outcome[1], !.pc = next_pc ]
    ELSE IF IsRateLimit(outcome[2]) /\ c.attempt < max_retries - 1
         THEN [ c EXCEPT !.sends = @ + 1, !.error_msg = outcome[2], !.attempt = @ + 1 ]
         ELSE [ c EXCEPT !.sends = @ + 1, !.error_msg = outcome[2], !.pc = "failed" ]

\* lines 83-242: the request arrives, the context is fetched (the four calls of the
\* service catch their own exceptions), the prompt and the chat are built; building
\* them may raise
PharmacyChat ==
    /\ pharmacy_chat.pc = "idle"
    /\ \E language \in { "en", "hi", "mr", "fr" }, use_voice \in BOOLEAN, built \in BOOLEAN :
          pharmacy_chat' = [ pc |-> IF built THEN "initial" ELSE "failed",
                             language |-> language, use_voice |-> use_voice, attempt |-> 0,
                             sends |-> 0, iteration |-> 0, tools_called |-> 0,
                             response |-> "none",
                             error_msg |-> IF built THEN << >> ELSE OtherError,
                             log |-> {}, answer |-> None ]
    /\ UNCHANGED << analysis, pharmacy, order_history, refill, chat_sessions, chat_requests, chat_count, document >>

\* lines 244-264: an attempt to send the first message
SendInitial ==
    /\ pharmacy_chat.pc = "initial"
    /\ \E outcome \in SendOutcomes :
          pharmacy_chat' = SendAttempt(pharmacy_chat, outcome, "loop")
    /\ UNCHANGED << analysis, pharmacy, order_history, refill, chat_sessions, chat_requests, chat_count, document >>

\* lines 269-300: the head of the tool loop and the dispatch of one tool; a response
\* without candidates raises at line 271, a tool that raises is logged and answered
\* with an error result, and a name that is no tool gets an error result
ToolLoop ==
    /\ pharmacy_chat.pc = "loop"
    /\ IF pharmacy_chat.iteration >= max_iterations
       THEN pharmacy_chat' = [ pharmacy_chat EXCEPT !.pc = "text" ]
       ELSE IF pharmacy_chat.response = "blocked"
       THEN pharmacy_chat' = [ pharmacy_chat EXCEPT !.pc = "failed", !.error_msg = OtherError ]
       ELSE IF pharmacy_chat.response # "function_call"
       THEN pharmacy_chat' = [ pharmacy_chat EXCEPT !.pc = "text" ]
       ELSE \E tool \in { "known", "raises", "not found" } :
               pharmacy_chat' = [ pharmacy_chat EXCEPT
                   !.pc = "tool_response",
                   !.tools_called = @ + 1,
                   !.log = IF tool = "raises" THEN @ \cup { "tool error" } ELSE @,
                   !.attempt = 0,
                   !.sends = 0 ]
    /\ UNCHANGED << analysis, pharmacy, order_history, refill, chat_sessions, chat_requests, chat_count, document >>

\* lines 302-332: an attempt to send the tool's result; after the send iteration += 1
SendToolResponse ==
    /\ pharmacy_chat.pc = "tool_response"
    /\ \E outcome \in SendOutcomes :
          \E sent \in { SendAttempt(pharmacy_chat, outcome, "loop") } :
              pharmacy_chat' = IF sent.pc = "loop"
                               THEN [ sent EXCEPT !.iteration = @ + 1 ]
                               ELSE sent
    /\ UNCHANGED << analysis, pharmacy, order_history, refill, chat_sessions, chat_requests, chat_count, document >>

\* lines 334-351: response.text, which raises for a response that is not text, the
\* voice when asked for (a synthesis that raises is logged and leaves no audio), and the
\* answer
ReadText ==
    /\ pharmacy_chat.pc = "text"
    /\ IF pharmacy_chat.response # "text"
       THEN pharmacy_chat' = [ pharmacy_chat EXCEPT !.pc = "failed", !.error_msg = OtherError ]
       ELSE \E voice \in (IF pharmacy_chat.use_voice THEN { "audio", "none", "raises" }
                                                     ELSE { "none" }) :
               pharmacy_chat' = [ pharmacy_chat EXCEPT
                   !.pc = "done",
                   !.log = IF voice = "raises" THEN @ \cup { "voice error" } ELSE @,
                   !.answer = Some([ success    |-> TRUE,
                                     response   |-> << "ai_text" >>,
                                     audio_data |-> voice = "audio",
                                     error      |-> None ]) ]
    /\ UNCHANGED << analysis, pharmacy, order_history, refill, chat_sessions, chat_requests, chat_count, document >>

\* lines 365-374: the fallback text in the language of the request, English for a
\* language without one
Fallback(table, language) ==
    << table, IF language \in { "hi", "mr", "en" } THEN language ELSE "en" >>

\* lines 353-379: the handler's except
ChatFailed ==
    /\ pharmacy_chat.pc = "failed"
    /\ pharmacy_chat' = [ pharmacy_chat EXCEPT
           !.pc = "done",
           !.log = @ \cup { "chat error" },
           !.answer = Some([ success    |-> FALSE,
                             response   |-> IF IsRateLimit(pharmacy_chat.error_msg)
                                            THEN Fallback("quota_fallbacks", pharmacy_chat.language)
                                            ELSE Fallback("fallbacks", pharmacy_chat.language),
                             audio_data |-> FALSE,
                             error      |-> Some(pharmacy_chat.error_msg) ]) ]
    /\ UNCHANGED << analysis, pharmacy, order_history, refill, chat_sessions, chat_requests, chat_count, document >>

\* the ChatResponse is sent
ChatAnswered ==
    /\ pharmacy_chat.pc = "done"
    /\ pharmacy_chat' = [ pharmacy_chat EXCEPT !.pc = "idle" ]
    /\ UNCHANGED << analysis, pharmacy, order_history, refill, chat_sessions, chat_requests, chat_count, document >>

NextPharmacyChat ==
    \/ PharmacyChat
    \/ SendInitial
    \/ ToolLoop
    \/ SendToolResponse
    \/ ReadText
    \/ ChatFailed
    \/ ChatAnswered

\* every call the handler awaits returns or raises, so a request in progress takes its
\* next step
PharmacyChatSpec == Init /\ [][NextPharmacyChat]_vars /\ WF_vars(NextPharmacyChat)

---------------------------------------------------------------------------
(* The chat: /chat of main.py and its in-memory history *)

\* the history of a user, empty for a user without one
History(sessions, user_id) ==
    IF user_id \in DOMAIN sessions THEN sessions[user_id] ELSE << >>

\* lines 447-448: chat_sessions[user_id] = [] for a user not yet in it
WithSession(sessions, user_id) ==
    [ u \in (DOMAIN sessions) \cup { user_id } |-> History(sessions, u) ]

\* line 451: chat_sessions[user_id][-10:]
recent_history(history) ==
    IF Len(history) <= 10 THEN history ELSE SubSeq(history, Len(history) - 9, Len(history))

\* lines 471-478: the message is a greeting
is_greeting(message) == message = "hi"

\* lines 485-541: the greeting prompt, only for a greeting at the start of a conversation,
\* holds no history; the medical prompt holds the recent history
system_prompt(message, recent) ==
    IF is_greeting(message) /\ recent = << >>
    THEN [ kind |-> "greeting", history |-> << >>, message |-> message ]
    ELSE [ kind |-> "medical", history |-> recent, message |-> message ]

\* what one attempt of generate_content may give: a response with text, one whose text
\* is in its candidates, the same with an empty text, one without either, a rate-limit
\* error, another error
GenerateOutcomes == { "text", "candidates", "empty text", "no structure", "rate limit", "error" }

\* lines 544-584: the retry loop; a text ends it, a response without structure and a
\* rate-limit error go on to the next attempt, any other error ends it without a text
RECURSIVE Generate(_, _)
Generate(outcomes, attempt) ==
    IF attempt >= max_retries THEN None
    ELSE IF outcomes[attempt + 1] \in { "text", "candidates" } THEN Some("reply")
    ELSE IF outcomes[attempt + 1] = "empty text" THEN Some("")
    ELSE IF outcomes[attempt + 1] \in { "no structure", "rate limit" }
         THEN Generate(outcomes, attempt + 1)
    ELSE None

\* what the loop may leave in ai_text, over all the outcomes of its attempts
GenerateResults == { Generate(outcomes, 0) : outcomes \in [ 1..max_retries -> GenerateOutcomes ] }

\* line 587: not ai_text
NoText(ai_text) == ai_text = None \/ Val(ai_text) = ""

\* a faulty variant of StoreConversation (C28 must fail on it): the fallback is stored too
StoreConversation_Always(sessions, user_id, message, ai_text) ==
    [ sessions EXCEPT ![user_id] = @ \o << [ role |-> "user", parts |-> << message >> ],
                                          [ role |-> "model", parts |-> << "fallback" >> ] >> ]

\* lines 587-609: the fallback text leaves the history alone; a reply is stored, after
\* the user's message, in the history of a user who has one
StoreConversation(sessions, user_id, message, ai_text) ==
    IF NoText(ai_text) THEN sessions
    ELSE IF user_id \in DOMAIN sessions
         THEN [ sessions EXCEPT ![user_id] =
                    @ \o << [ role |-> "user", parts |-> << message >> ],
                            [ role |-> "model", parts |-> << Val(ai_text) >> ] >> ]
         ELSE sessions

\* lines 438-458: a request arrives; the user's history is made if there is none and
\* its last messages are read; the handler then awaits the search of the records
Chat(r) ==
    /\ chat_requests[r].pc = "idle"
    /\ chat_count < MaxChats
    /\ chat_count' = chat_count + 1
    /\ \E request_user_id \in { None } \cup { Some(u) : u \in ChatUsers },
          message \in ChatMessages :
          \E user_id \in { IF request_user_id = None THEN "anonymous"
                                                     ELSE Val(request_user_id) } :
             /\ chat_sessions' = WithSession(chat_sessions, user_id)
             /\ chat_requests' = [ chat_requests EXCEPT ![r] =
                    [ pc |-> "searching", user_id |-> Some(user_id), message |-> message,
                      recent_history |-> recent_history(History(chat_sessions, user_id)),
                      prompt |-> None, ai_text |-> None, answer |-> None ] ]
    /\ UNCHANGED << analysis, pharmacy, order_history, refill, pharmacy_chat, document >>

\* lines 460-634: the search returns or raises; the prompt is built, the model is asked
\* in at most three attempts, and its reply is stored or the fallback text is taken; none
\* of this awaits, so no other request runs in between; a search that raises is answered
\* by the handler's except
ChatGenerate(r) ==
    /\ chat_requests[r].pc = "searching"
    /\ \E searched \in BOOLEAN, ai_text \in GenerateResults :
          \E c \in { chat_requests[r] } :
             IF ~searched
             THEN /\ chat_requests' = [ chat_requests EXCEPT ![r] =
                        [ c EXCEPT !.pc = "done",
                                   !.answer = Some([ success |-> FALSE,
                                                     response |-> "technical difficulties" ]) ] ]
                  /\ UNCHANGED chat_sessions
             ELSE /\ chat_sessions' = StoreConversation(chat_sessions, Val(c.user_id),
                                                        c.message, ai_text)
                  /\ chat_requests' = [ chat_requests EXCEPT ![r] =
                        [ c EXCEPT !.pc = "voice",
                                   !.prompt = Some(system_prompt(c.message, c.recent_history)),
                                   !.ai_text = ai_text,
                                   !.answer = Some([ success |-> TRUE,
                                                     response |-> IF NoText(ai_text)
                                                                  THEN "fallback"
                                                                  ELSE Val(ai_text) ]) ] ]
    /\ UNCHANGED << analysis, pharmacy, order_history, refill, pharmacy_chat, chat_count, document >>

\* lines 611-634: the voice, awaited, whose failure is caught, and the answer
ChatVoice(r) ==
    /\ chat_requests[r].pc = "voice"
    /\ chat_requests' = [ chat_requests EXCEPT ![r].pc = "done" ]
    /\ UNCHANGED << analysis, pharmacy, order_history, refill, pharmacy_chat, chat_sessions, chat_count, document >>

\* the ChatResponse is sent and the request is over
ChatReturn(r) ==
    /\ chat_requests[r].pc = "done"
    /\ chat_requests' = [ chat_requests EXCEPT ![r] = NoChatRequest ]
    /\ UNCHANGED << analysis, pharmacy, order_history, refill, pharmacy_chat, chat_sessions, chat_count, document >>

NextChat ==
    \/ \E r \in ChatRequests : Chat(r)
    \/ \E r \in ChatRequests : ChatGenerate(r)
    \/ \E r \in ChatRequests : ChatVoice(r)
    \/ \E r \in ChatRequests : ChatReturn(r)

\* the server has just started, or a user has had five exchanges with the model
ChatInit ==
    /\ AnalysisInit
    /\ DocumentIdle
    /\ ChatCountIdle
    /\ ChatRequestsIdle
    /\ PharmacyChatIdle
    /\ RefillIdle
    /\ PharmacyIdle
    /\ OrderHistoryIdle
    /\ chat_sessions \in { << >>, [ u \in ChatUsers |-> FiveExchanges ] }

ChatSpec == ChatInit /\ [][NextChat]_vars

---------------------------------------------------------------------------
(* Documents: RAGService.process_document of rag_service.py (and the same steps in the
   handler of app.py) *)

\* rag_service.py lines 95-99 (app.py 130-134): the text of the pages that have one,
\* each followed by a newline
RECURSIVE ExtractText(_)
ExtractText(pages) ==
    IF pages = << >> THEN << >>
    ELSE IF Head(pages) # << >>
         THEN Head(pages) \o << "\n" >> \o ExtractText(Tail(pages))
         ELSE ExtractText(Tail(pages))

\* line 101: full_text.strip() is empty
Blank(t) == \A i \in 1..Len(t) : IsSpace(t[i])

\* a faulty variant of Slice (C30 must fail on it): the slice ends one character early
Slice_OneShort(t, i, j) ==
    SubSeq(t, i + 1, (IF j - 1 < Len(t) THEN j - 1 ELSE Len(t)))

\* t[i:j] for 0 <= i <= j: the characters at the 0-based positions i .. j-1 that t has
Slice(t, i, j) ==
    SubSeq(t, i + 1, (IF j < Len(t) THEN j ELSE Len(t)))

\* range(0, n, step) for step > 0
RECURSIVE RangeFrom(_, _, _)
RangeFrom(i, n, step) ==
    IF i >= n THEN << >> ELSE << i >> \o RangeFrom(i + step, n, step)

\* lines 114-117 (app.py 157): [full_text[i:i+chunk_size] for i in range(0, len(full_text), chunk_size)]
Chunks(full_text, chunk_size) ==
    [ k \in 1..Len(RangeFrom(0, Len(full_text), chunk_size)) |->
        Slice(full_text, RangeFrom(0, Len(full_text), chunk_size)[k],
                         RangeFrom(0, Len(full_text), chunk_size)[k] + chunk_size) ]

\* what may fail in a call: nothing, the download, the saving of the full text (which
\* is caught), the embedding of a chunk, the insert
DocumentFaults == { "none", "download", "save text", "embed", "insert" }

\* lines 64-145: the whole call; the rows are inserted in one batch after every chunk
\* has its embedding, so a call that raises has inserted none
ProcessDocument ==
    /\ document.pc = "idle"
    /\ \E n \in 0..MaxPages, chunk_size \in 1..MaxChunkSize, fault \in DocumentFaults :
        \E pages \in [ 1..n -> PageTexts ] :
          \E full_text \in { ExtractText(pages) } :
            document' =
              IF fault = "download"
              THEN [ document EXCEPT !.pc = "raised", !.chunk_size = chunk_size ]
              ELSE IF Blank(full_text)
              THEN [ document EXCEPT !.pc = "raised", !.full_text = full_text,
                                     !.chunk_size = chunk_size ]
              ELSE LET chunks == Chunks(full_text, chunk_size)
                   IN [ pc              |-> IF fault \in { "embed", "insert" } THEN "raised"
                                                                              ELSE "returned",
                       full_text       |-> full_text,
                       chunk_size      |-> chunk_size,
                       chunks          |-> chunks,
                       extracted_text  |-> IF fault = "save text" THEN None
                                                                  ELSE Some(full_text),
                       document_chunks |-> IF fault \in { "embed", "insert" } THEN << >>
                                           ELSE [ k \in 1..Len(chunks) |->
                                                    [ content |-> chunks[k],
                                                      embedding |-> "embedding" ] ],
                       returned        |-> IF fault \in { "embed", "insert" } THEN None
                                           ELSE Some([ chunks |-> Len(chunks),
                                                       text_length |-> Len(full_text) ]) ]
    /\ UNCHANGED << analysis, pharmacy, order_history, refill, pharmacy_chat, chat_sessions,
                    chat_requests, chat_count >>

\* the caller has the answer or the exception; the next call is for another record
DocumentReturned ==
    /\ document.pc \in { "returned", "raised" }
    /\ document' = NoDocument
    /\ UNCHANGED << analysis, pharmacy, order_history, refill, pharmacy_chat, chat_sessions,
                    chat_requests, chat_count >>

NextDocument ==
    \/ ProcessDocument
    \/ DocumentReturned

DocumentSpec == Init /\ [][NextDocument]_vars

---------------------------------------------------------------------------
(* Properties *)

\* the locals and the result of the call that has just returned
F == Val(features)

R == Val(result)

LevelRank(level) ==
    CASE level = "Healthy"  -> 0
      [] level = "Warning"  -> 1
      [] level = "Critical" -> 2

\* C1: analyze_risk takes exactly one strategy: the classifier iff systolic,
\* diastolic, sugar and age are all present; else the rule ladder iff the BP pair
\* or sugar is present; else Insufficient Data.  BP and age without sugar go to the
\* rule ladder, and the classifier is asked only on its own branch.
C1_StrategyByCompleteness ==
    pc = "analyzed" =>
        LET all4 == IsSome(F.systolic) /\ IsSome(F.diastolic) /\ IsSome(F.sugar) /\ IsSome(F.age)
            some == (IsSome(F.systolic) /\ IsSome(F.diastolic)) \/ IsSome(F.sugar)
        IN  /\ strategy \in { "ml", "rules", "none" }
            /\ strategy = "ml" <=> all4
            /\ strategy = "rules" <=> (~all4 /\ some)
            /\ strategy = "none" <=> ~some
            /\ IsSome(input_data) <=> strategy = "ml"
            /\ strategy = "ml" => R.risk_level = status_map[rf_model[Val(input_data)]]
            /\ strategy = "none" <=> R.risk_level = "Insufficient Data"

\* a call with BP and age but no sugar took the rule ladder
C1_Witness ==
    /\ pc = "analyzed"
    /\ IsSome(F.systolic) /\ IsSome(F.diastolic) /\ IsSome(F.age) /\ ~IsSome(F.sugar)
    /\ strategy = "rules"

C2_BpTier(f) ==
    IF ~(IsSome(f.systolic) /\ IsSome(f.diastolic)) THEN "Healthy"
    ELSE IF Val(f.systolic) >= 180 \/ Val(f.diastolic) >= 120 THEN "Critical"
    ELSE IF Val(f.systolic) >= 140 \/ Val(f.diastolic) >= 90 THEN "Warning"
    ELSE "Healthy"

C2_SugarTier(f) ==
    IF ~IsSome(f.sugar) THEN "Healthy"
    ELSE IF Val(f.sugar) >= 200 THEN "Critical"
    ELSE IF Val(f.sugar) >= 140 THEN "Warning"
    ELSE "Healthy"

\* C2: on the rule ladder the risk level is the higher of the BP tier and the sugar
\* tier; an absent BP pair or absent sugar counts as Healthy.
C2_LadderIsMaxOfTiers ==
    (pc = "analyzed" /\ strategy = "rules") =>
        /\ R.risk_level \in { C2_BpTier(F), C2_SugarTier(F) }
        /\ LevelRank(R.risk_level) >= LevelRank(C2_BpTier(F))
        /\ LevelRank(R.risk_level) >= LevelRank(C2_SugarTier(F))

\* the ladder ended Critical on sugar alone, above a Warning BP
C2_Witness ==
    /\ pc = "analyzed" /\ strategy = "rules"
    /\ C2_BpTier(F) = "Warning" /\ C2_SugarTier(F) = "Critical"
    /\ R.risk_level = "Critical"

\* C3: systolic and diastolic are both present or both absent in every record
\* parse_medical_text returns.
C3_BpPairedOrAbsent ==
    pc = "analyzed" => (IsSome(F.systolic) <=> IsSome(F.diastolic))

\* a BP reading was extracted, both numbers of it
C3_Witness ==
    /\ pc = "analyzed"
    /\ F.systolic = Some(190) /\ F.diastolic = Some(80)

C4_AllAbsent(rec) == \A k \in DOMAIN rec : rec[k] = None

\* C4: for any list of strings analyze_risk returns a risk assessment and does not
\* raise; for the empty list and for text with no reading it returns Insufficient
\* Data with every vitals field absent.
C4_NeverRaisesAndDegrades ==
    /\ pc # "failed"
    /\ pc = "analyzed" =>
          /\ R.risk_level \in { "Healthy", "Warning", "Critical", "Insufficient Data" }
          /\ (text_records = << >> \/ C4_AllAbsent(F)) =>
                (R.risk_level = "Insufficient Data" /\ C4_AllAbsent(R.vitals_detected))

\* a list of two empty strings came back as Insufficient Data
C4_Witness ==
    /\ pc = "analyzed"
    /\ Len(text_records) = 2 /\ text_records[1] = << >> /\ text_records[2] = << >>
    /\ R.risk_level = "Insufficient Data"

\* C5: with neither the BP pair nor sugar extracted the level is Insufficient Data
\* whatever else was extracted, and what was extracted is echoed.
C5_InsufficientDataEchoes ==
    (pc = "analyzed" /\ ~(IsSome(F.systolic) /\ IsSome(F.diastolic)) /\ ~IsSome(F.sugar)) =>
        /\ R.risk_level = "Insufficient Data"
        /\ R.vitals_detected.age = F.age
        /\ R.vitals_detected.heart_rate = F.heart_rate
        /\ R.vitals_detected.height = F.height
        /\ R.vitals_detected.weight = F.weight
        /\ R.vitals_detected.blood_group = F.blood_group
        /\ R.vitals_detected.sugar = None
        /\ R.vitals_detected.bp = None

\* age, height, weight and blood group were extracted and echoed with no risk level
C5_Witness ==
    /\ pc = "analyzed"
    /\ R.risk_level = "Insufficient Data"
    /\ IsSome(R.vitals_detected.age) /\ IsSome(R.vitals_detected.height)
    /\ IsSome(R.vitals_detected.weight) /\ IsSome(R.vitals_detected.blood_group)

\* C6: vitals_detected.bp is the string "<systolic>/<diastolic>" whenever both are
\* present in the extracted record, and absent only when they are not both present.
C6_BpStringIffBothPresent ==
    pc = "analyzed" =>
        IF IsSome(F.systolic) /\ IsSome(F.diastolic)
        THEN R.vitals_detected.bp = Some(str(Val(F.systolic)) \o << "/" >> \o str(Val(F.diastolic)))
        ELSE R.vitals_detected.bp = None

\* the kept earlier call
E == Val(earlier)

C7_SameSugarAgeHigherBp ==
    /\ pc = "analyzed" /\ IsSome(earlier)
    /\ E.features.sugar = F.sugar /\ E.features.age = F.age
    /\ IsSome(E.features.systolic) /\ IsSome(E.features.diastolic)
    /\ IsSome(F.systolic) /\ IsSome(F.diastolic)
    /\ Val(E.features.systolic) <= Val(F.systolic)
    /\ Val(E.features.diastolic) <= Val(F.diastolic)

C9_NumberAfterLabel(t) ==
    LET i == CHOOSE i \in 1..Len(t) :
                 /\ IsSome(FirstAltAt(t, i, AgeLabels)) /\ FirstDigit(t, i + 3) # 0
                 /\ \A h \in 1..(i - 1) :
                       ~(IsSome(FirstAltAt(t, h, AgeLabels)) /\ FirstDigit(t, h + 3) # 0)
        d == FirstDigit(t, i + 3)
        e == CHOOSE e \in d..Len(t) :
                 /\ \A k \in d..e : IsDigit(t[k])
                 /\ (e = Len(t) \/ ~IsDigit(t[e + 1]))
    IN  SubSeq(t, d, e)

C9_HasNumberAfterLabel(t) ==
    \E i \in 1..Len(t) : IsSome(FirstAltAt(t, i, AgeLabels)) /\ FirstDigit(t, i + 3) # 0

\* C9: when the number that follows the age label has three or more digits, age is
\* absent; when it has one or two digits, age is that number.
C9_AgeIsWholeNumberOrAbsent ==
    (pc = "analyzed" /\ C9_HasNumberAfterLabel(clean(join(text_records)))) =>
        LET number == C9_NumberAfterLabel(clean(join(text_records)))
        IN  IF Len(number) >= 3 THEN F.age = None ELSE F.age = Some(int(number))

C10_BloodGroups ==
    { <<"A","+">>, <<"A","-">>, <<"B","+">>, <<"B","-">>,
      <<"A","B","+">>, <<"A","B","-">>, <<"O","+">>, <<"O","-">> }

\* C10: a blood group that parse_medical_text returns is one of the eight strings
\* A+, A-, B+, B-, AB+, AB-, O+, O-.
C10_BloodGroupIsOneOfEight ==
    (pc = "analyzed" /\ IsSome(F.blood_group)) => Val(F.blood_group) \in C10_BloodGroups

\* the sign that stands next to the letter group g at i, with at most one space
\* between, as << sign >>, else None
C11_SignAfter(t, i, g) ==
    LET k == i + Len(g)
    IN  IF ~(WordStartAt(t, i) /\ HasAtNoCase(t, i, g)) THEN None
        ELSE IF k <= Len(t) /\ t[k] \in { "+", "-" } THEN Some(t[k])
        ELSE IF k + 1 <= Len(t) /\ t[k] = " " /\ t[k + 1] \in { "+", "-" } THEN Some(t[k + 1])
        ELSE None

C11_SymbolFormAt(t, i) == \E a \in 1..Len(GroupAlts) : IsSome(C11_SignAfter(t, i, GroupAlts[a]))

\* the blood group the first symbol form of t spells
C11_FirstSymbolForm(t) ==
    LET i == CHOOSE i \in 1..Len(t) :
                 C11_SymbolFormAt(t, i) /\ \A h \in 1..(i - 1) : ~C11_SymbolFormAt(t, h)
        a == CHOOSE a \in 1..Len(GroupAlts) : IsSome(C11_SignAfter(t, i, GroupAlts[a]))
    IN  upper(GroupAlts[a]) \o << Val(C11_SignAfter(t, i, GroupAlts[a])) >>

\* the blood group the first word form of the cleaned text t spells
C11_FirstWordForm(t) ==
    LET i == CHOOSE i \in 1..Len(t) :
                 IsSome(BgWordAt(t, i)) /\ \A h \in 1..(i - 1) : ~IsSome(BgWordAt(t, h))
        w == Val(BgWordAt(t, i))
    IN  upper(w[1]) \o (IF w[2] = SignWords[1] THEN << "+" >> ELSE << "-" >>)

\* C11: the blood group is that of the first symbol form (letter group next to '+' or
\* '-') when the text has one; else that of the first word form ('<group> positive'
\* or '<group> negative') when it has one; else absent.
C11_SymbolFormThenWordForm ==
    pc = "analyzed" =>
        LET t == join(text_records)
        IN  IF \E i \in 1..Len(t) : C11_SymbolFormAt(t, i)
            THEN F.blood_group = Some(C11_FirstSymbolForm(t))
            ELSE IF \E i \in 1..Len(t) : IsSome(BgWordAt(clean(t), i))
            THEN F.blood_group = Some(C11_FirstWordForm(clean(t)))
            ELSE F.blood_group = None

\* where the second number of a slash pattern starts when the first one ends before
\* e: after spaces, a slash and spaces; 0 when no slash or no two digits stand there
C12_SecondAt(t, e) ==
    IF HasAt(t, SkipSpaces(t, e), << "/" >>)
       /\ DigitsAt(t, SkipSpaces(t, SkipSpaces(t, e) + 1), 2)
    THEN SkipSpaces(t, SkipSpaces(t, e) + 1)
    ELSE 0

\* the second number from m: three digits when they are there, else two
C12_Second(t, m) == SubSeq(t, m, IF DigitsAt(t, m, 3) THEN m + 2 ELSE m + 1)

\* n digits at d, a slash, 2-3 digits; with whole, both are whole numbers (no digit
\* stands before the first or after the second)
C12_PatternAt(t, d, n, whole) ==
    /\ DigitsAt(t, d, n)
    /\ C12_SecondAt(t, d + n) # 0
    /\ whole => /\ d = 1 \/ ~IsDigit(t[d - 1])
                /\ ~DigitsAt(t, C12_SecondAt(t, d + n), 4)

C12_Has(t, whole) == \E d \in 1..Len(t) : \E n \in 2..3 : C12_PatternAt(t, d, n, whole)

\* << sys, dia >> of the first slash pattern of t
C12_First(t, whole) ==
    LET d == CHOOSE d \in 1..Len(t) :
                 /\ \E n \in 2..3 : C12_PatternAt(t, d, n, whole)
                 /\ \A h \in 1..(d - 1) : \A n \in 2..3 : ~C12_PatternAt(t, h, n, whole)
        n == CHOOSE n \in 2..3 : C12_PatternAt(t, d, n, whole)
    IN  << int(SubSeq(t, d, d + n - 1)), int(C12_Second(t, C12_SecondAt(t, d + n))) >>

RECURSIVE C13_Joined(_)
C13_Joined(recs) ==
    IF Len(recs) = 0 THEN << >>
    ELSE IF Len(recs) = 1 THEN recs[1]
    ELSE C13_Joined(SubSeq(recs, 1, Len(recs) - 1)) \o << " " >> \o recs[Len(recs)]

\* a label stands at i and the first digits after it, with only non-digits in
\* between, are at least lo
C13_ReadingAt(t, i, labels, lo) ==
    /\ \E a \in 1..Len(labels) : HasAt(t, i, labels[a])
    /\ FirstDigit(t, i) # 0
    /\ DigitsAt(t, FirstDigit(t, i), lo)

\* the number (at most hi digits) of the earliest label having one
C13_FirstReading(t, labels, lo, hi) ==
    IF \E i \in 1..Len(t) : C13_ReadingAt(t, i, labels, lo)
    THEN LET i == CHOOSE i \in 1..Len(t) :
                      /\ C13_ReadingAt(t, i, labels, lo)
                      /\ \A h \in 1..(i - 1) : ~C13_ReadingAt(t, h, labels, lo)
             d == FirstDigit(t, i)
             n == CHOOSE n \in lo..hi : DigitsAt(t, d, n) /\ (n = hi \/ ~DigitsAt(t, d, n + 1))
         IN  Some(int(SubSeq(t, d, d + n - 1)))
    ELSE None

C14_VectorAndLevel ==
    (pc = "analyzed" /\ strategy = "ml") =>
        /\ IsSome(input_data)
        /\ Len(Val(input_data)) = 5
        /\ \A k \in 1..5 : Val(input_data)[k] \in Nat
        /\ Val(input_data)[1] = Val(F.systolic)
        /\ Val(input_data)[2] = Val(F.diastolic)
        /\ Val(input_data)[3] = Val(F.sugar)
        /\ Val(input_data)[4] = (IF F.heart_rate = None THEN 72 ELSE Val(F.heart_rate))
        /\ Val(input_data)[5] = Val(F.age)
        /\ R.risk_level \in { "Healthy", "Warning", "Critical" }

\* the forest was asked about a reading without a heart rate and got 72 in its place
C14_Witness ==
    /\ pc = "analyzed" /\ strategy = "ml"
    /\ F.heart_rate = None
    /\ Val(input_data) = << 150, 90, 200, 72, 45 >>
    /\ R.risk_level \in { "Healthy", "Warning", "Critical" }

\* the forest was asked about a reading with a heart rate of its own
C14_WitnessOwnHeartRate ==
    /\ pc = "analyzed" /\ strategy = "ml"
    /\ F.heart_rate = Some(80)
    /\ Val(input_data)[4] = 80

\* C15: on the rule ladder the level is a function of systolic, diastolic and sugar:
\* two inputs on the ladder with the same BP pair and the same sugar get the same
\* level whatever their heart rate, age, height, weight and blood group.
C15_LadderReadsBpAndSugarOnly ==
    (/\ pc = "analyzed" /\ IsSome(earlier)
     /\ E.strategy = "rules" /\ strategy = "rules"
     /\ E.features.systolic = F.systolic
     /\ E.features.diastolic = F.diastolic
     /\ E.features.sugar = F.sugar) =>
        E.result.risk_level = R.risk_level

\* the same BP without sugar, once alone and once with age, heart rate, weight, height
\* and blood group: the same level
C15_Witness ==
    /\ pc = "analyzed" /\ IsSome(earlier)
    /\ E.strategy = "rules" /\ strategy = "rules"
    /\ E.features.systolic = F.systolic /\ E.features.diastolic = F.diastolic
    /\ E.features.sugar = F.sugar
    /\ E.features.age = None /\ E.features.heart_rate = None /\ E.features.height = None
    /\ E.features.weight = None /\ E.features.blood_group = None
    /\ F.age = Some(45) /\ F.heart_rate = Some(80) /\ F.height = Some(175)
    /\ F.weight = Some(70) /\ F.blood_group = Some(<< "O", "+" >>)
    /\ E.result.risk_level = "Warning" /\ R.risk_level = "Warning"

\* what the call analyze_risk(recs) returns when it runs alone, under the forest as
\* it is
C16_Alone(recs) == { out.result : out \in analyze_risk(rf_model, recs) }

C17_Constructed == CHOOSE r \in { Val(out.result) : out \in analyze_risk(rf_model, text_records) } : TRUE

\* C17 as stated: the dict analyze_risk returned is never changed afterwards by a step
\* that receives it, the /analyze_health handler included.
C17_ResultNeverChanged ==
    pc \in { "analyzed", "merged" } => \A c \in { C17_Constructed } : R = c

\* C17, amended: risk_level and height are never changed, and no field of
\* vitals_detected that holds a value (other than 0) is; the handler of main.py may
\* fill bp, sugar, heart_rate, weight, age and blood_group in where they are absent.
C17_OnlyAbsentVitalsFilledIn ==
    pc \in { "analyzed", "merged" } =>
        \A c \in { C17_Constructed } :
            /\ R.risk_level = c.risk_level
            /\ R.vitals_detected.height = c.vitals_detected.height
            /\ \A key \in DOMAIN R.vitals_detected :
                   \/ R.vitals_detected[key] = c.vitals_detected[key]
                   \/ Falsy(key, c.vitals_detected[key])
            /\ pc = "analyzed" => R = c

\* the handler filled the absent age in and left the sugar analyze_risk had
\* extracted alone
C17_Witness ==
    /\ pc = "merged"
    /\ R.vitals_detected.age = Some(35) /\ R.vitals_detected.sugar = Some(90)
    /\ \E c \in { C17_Constructed } :
           /\ c.vitals_detected.age = None /\ c.vitals_detected.sugar = Some(90)
           /\ R.risk_level = c.risk_level

\* where the number (the whole run of digits) that has a digit at d starts
C18_NumberAt(t, d) ==
    CHOOSE b \in 1..d : (\A k \in b..d : IsDigit(t[k])) /\ (b = 1 \/ ~IsDigit(t[b - 1]))

\* where the first slash pattern of t starts
C18_BpStart(t) ==
    CHOOSE d \in 1..Len(t) :
        /\ \E n \in 2..3 : C12_PatternAt(t, d, n, FALSE)
        /\ \A h \in 1..(d - 1) : \A n \in 2..3 : ~C12_PatternAt(t, h, n, FALSE)

\* where the digits of the first reading of a labelled field start
C18_ReadingStart(t, labels, lo) ==
    FirstDigit(t, CHOOSE i \in 1..Len(t) :
                      /\ C13_ReadingAt(t, i, labels, lo)
                      /\ \A h \in 1..(i - 1) : ~C13_ReadingAt(t, h, labels, lo))

\* where the digits of the first number with one of the units start
C18_UnitStart(t, units) ==
    CHOOSE d \in 1..Len(t) :
        IsSome(UnitAt(t, d, units)) /\ \A h \in 1..(d - 1) : ~IsSome(UnitAt(t, h, units))

\* for each field the number of the text it was populated from, 0 for an absent field
C18_Sources(t, f) ==
    [ systolic   |-> IF f.systolic = None THEN 0 ELSE C18_NumberAt(t, C18_BpStart(t)),
      diastolic  |-> IF f.diastolic = None THEN 0
                     ELSE C18_NumberAt(t, C12_SecondAt(t, C18_BpStart(t) +
                              (CHOOSE n \in 2..3 : C12_PatternAt(t, C18_BpStart(t), n, FALSE)))),
      sugar      |-> IF f.sugar = None THEN 0
                     ELSE C18_NumberAt(t, C18_ReadingStart(t, SugarLabels, 2)),
      heart_rate |-> IF f.heart_rate = None THEN 0
                     ELSE C18_NumberAt(t, C18_ReadingStart(t, HrLabels, 2)),
      age        |-> IF f.age = None THEN 0
                     ELSE C18_NumberAt(t, C18_ReadingStart(t, AgeLabels, 1)),
      height     |-> IF f.height = None THEN 0
                     ELSE C18_NumberAt(t, C18_UnitStart(t, HeightUnits)),
      weight     |-> IF f.weight = None THEN 0
                     ELSE C18_NumberAt(t, C18_UnitStart(t, WeightUnits)) ]

\* C18: no value is borrowed from another reading: each number of the text populates
\* at most one of systolic, diastolic, sugar, heart rate, age, height and weight, so a
\* label with no number of its own before the next reading leaves its field absent.
C18_NoNumberUsedTwice ==
    pc = "analyzed" =>
        \A src \in { C18_Sources(clean(join(text_records)), F) } :
            \A k, l \in DOMAIN src : (k # l /\ src[k] # 0) => src[k] # src[l]

C19_NumericFields == { "systolic", "diastolic", "sugar", "heart_rate", "age", "height", "weight" }

\* C19: parse_medical_text applied to a text that was already normalized, as
\* /health_trends does, returns the same systolic, diastolic, sugar, heart rate, age,
\* height and weight as parse_medical_text applied to the text itself.
C19_CleanedTwiceSameNumbers ==
    pc = "trended" =>
        \A i \in 1..Len(text_records) :
            \A direct \in { parse_medical_text(text_records[i]) } :
                \A k \in C19_NumericFields : Val(trends).vitals[i][k] = direct[k]

\* a record with a capital and a colon, which cleaning changes, gave its sugar to the
\* timeline, and a record without a key metric gave nothing
C19_Witness ==
    /\ pc = "trended"
    /\ Len(text_records) = 2
    /\ clean(text_records[1]) # text_records[1]
    /\ Val(trends).vitals[1].sugar = Some(90)
    /\ Val(trends).timeline[1] # None
    /\ Val(trends).timeline[2] = None

\* the sum of the quantities the items ask of medicine m
RECURSIVE C20_Requested(_, _)
C20_Requested(items, m) ==
    IF items = << >>
    THEN 0
    ELSE (IF Head(items).medicine_id = m THEN Head(items).qty ELSE 0)
         + C20_Requested(Tail(items), m)

\* the medicines the problems with this code name, in their order
C20_Named(problems, code) ==
    LET HasCode(problem) == problem.code = code
        with == SelectSeq(problems, HasCode)
    IN  [ i \in 1..Len(with) |-> with[i].medicine_id ]

\* the medicines of the items that satisfy Violates, in the order of the items
C20_Violating(items, Violates(_)) ==
    LET those == SelectSeq(items, Violates)
    IN  [ i \in 1..Len(those) |-> those[i].medicine_id ]

C20_FinalizeStep ==
    (pharmacy.finalized = None /\ pharmacy'.finalized # None) =>
        LET returned == Val(pharmacy'.finalized)
            id       == returned.order_id
            Same     == /\ pharmacy'.orders = pharmacy.orders
                        /\ pharmacy'.medicines = pharmacy.medicines
        IN  IF id \notin OrderIds \/ pharmacy.orders[id] = None
            THEN /\ returned.status = "failed"
                 /\ returned.problems = << [ code |-> "order_not_found" ] >>
                 /\ Same
            ELSE LET items    == Val(pharmacy.orders[id]).order_items
                     Short(item) == pharmacy.medicines[item.medicine_id].stock < item.qty
                     Needs(item) ==
                         pharmacy.medicines[item.medicine_id].prescription_required = Some(TRUE)
                 IN  IF \A i \in 1..Len(items) : ~Short(items[i]) /\ ~Needs(items[i])
                     THEN /\ returned.status = "finalized"
                          /\ Val(pharmacy'.orders[id]).status = "finalized"
                          /\ \A m \in Medicines :
                                pharmacy'.medicines[m].stock =
                                    pharmacy.medicines[m].stock - C20_Requested(items, m)
                     ELSE /\ returned.status = "failed"
                          /\ Same
                          /\ C20_Named(returned.problems, "insufficient_stock")
                                = C20_Violating(items, Short)
                          /\ C20_Named(returned.problems, "prescription_missing")
                                = C20_Violating(items, Needs)
                          /\ Len(returned.problems)
                                = Len(C20_Violating(items, Short))
                                  + Len(C20_Violating(items, Needs))

C20_NoPrescriptionItemFinalized ==
    \A o \in OrderIds :
        (pharmacy'.orders[o] # None /\ Val(pharmacy'.orders[o]).status = "finalized") =>
            \A i \in 1..Len(Val(pharmacy'.orders[o]).order_items) :
                pharmacy'.medicines[Val(pharmacy'.orders[o]).order_items[i].medicine_id]
                    .prescription_required # Some(TRUE)

\* C20: finalize_order sets the order's status to 'finalized' and decrements the stock
\* only if every item's medicine has stock >= the item's qty and no item's medicine has
\* prescription_required; otherwise it returns 'failed' with one problem per violation
\* (insufficient_stock, prescription_missing) and leaves the tables alone, and it
\* returns order_not_found when no order has the id.  An order with a medicine that
\* requires a prescription is never finalized.
C20_CommitsOnlyWithoutViolation ==
    [][C20_FinalizeStep /\ C20_NoPrescriptionItemFinalized]_vars

\* an order of two items was finalized and the stock of its medicine went down by both
\* quantities
C20_Witness ==
    /\ pharmacy.finalized # None
    /\ Val(pharmacy.finalized).status = "finalized"
    /\ Len(Val(pharmacy.finalized).items) = 2
    /\ Val(pharmacy.orders["o1"]).status = "finalized"
    /\ \E m \in Medicines : pharmacy.medicines[m].stock = 0

\* an item short of stock whose medicine requires a prescription gave two problems
C20_WitnessTwoProblems ==
    /\ pharmacy.finalized # None
    /\ Val(pharmacy.finalized).status = "failed"
    /\ pharmacy.orders["o1"] # None
    /\ Len(Val(pharmacy.orders["o1"]).order_items) = 1
    /\ Len(Val(pharmacy.finalized).problems) = 2

\* C21: whenever finalize_order returns status 'failed', for any reason, an exception
\* raised part-way included, the call has not set the order's status to 'finalized' and
\* has not decremented the stock of any medicine.
C21_FailedLeavesTablesAlone ==
    [][ (/\ pharmacy.finalized = None
         /\ pharmacy'.finalized # None
         /\ Val(pharmacy'.finalized).status = "failed")
        => (/\ pharmacy'.orders = pharmacy.orders
            /\ pharmacy'.medicines = pharmacy.medicines) ]_vars

\* C24: after create_order_draft returns, either it reports success and the database
\* holds one new order with status 'draft', total_items equal to the number of
\* requested items and one order_items row per requested item, or it reports failure
\* and no new order row exists.
C24_DraftWholeOrAbsent ==
    [][ (pharmacy.drafted = None /\ pharmacy'.drafted # None) =>
        \E returned \in { Val(pharmacy'.drafted) } :
            IF "success" \in DOMAIN returned
            THEN /\ returned.success = FALSE
                 /\ pharmacy'.orders = pharmacy.orders
            ELSE \E o \in OrderIds :
                    /\ returned.order_id = o
                    /\ pharmacy.orders[o] = None
                    /\ pharmacy'.orders[o] # None
                    /\ \A other \in OrderIds \ { o } :
                          pharmacy'.orders[other] = pharmacy.orders[other]
                    /\ Val(pharmacy'.orders[o]).status = "draft"
                    /\ Val(pharmacy'.orders[o]).total_items = Len(returned.items)
                    /\ Len(Val(pharmacy'.orders[o]).order_items) = Len(returned.items) ]_vars

\* C22: after any sequence of create_order_draft and finalize_order calls, an order
\* that lists the same medicine in two items included, no medicine's stock is below
\* zero (decrement_medicine_stock subtracting the given amount).
C22_StockNeverNegative ==
    \A m \in Medicines : pharmacy.medicines[m].stock >= 0

\* C23: stock is decremented at most once per order: finalize_order called on an
\* order that is already finalized leaves every medicine's stock unchanged.
C23_FinalizedOrderNotDecrementedAgain ==
    [][ (/\ pharmacy.finalized = None
         /\ pharmacy'.finalized # None
         /\ Val(pharmacy'.finalized).order_id \in OrderIds
         /\ pharmacy.orders[Val(pharmacy'.finalized).order_id] # None
         /\ Val(pharmacy.orders[Val(pharmacy'.finalized).order_id]).status = "finalized")
        => pharmacy'.medicines = pharmacy.medicines ]_vars

\* the sum of the values of a function
RECURSIVE C25_Sum(_)
C25_Sum(weight) ==
    IF DOMAIN weight = {}
    THEN 0
    ELSE LET id == CHOOSE x \in DOMAIN weight : TRUE
         IN  weight[id] + C25_Sum([ x \in DOMAIN weight \ { id } |-> weight[x] ])

\* how many order items the patient has that are no older than t: the items of the
\* patient's orders (when the id has the UUID shape) and the patient's rows of the raw
\* history
C25_NoOlder(patient_id, t) ==
    C25_Sum([ o \in { o \in HistoryOrderIds :
                        /\ is_uuid(patient_id)
                        /\ order_history.orders[o] # None
                        /\ Val(order_history.orders[o]).patient_id = patient_id
                        /\ Val(order_history.orders[o]).created_at >= t } |->
                Val(order_history.orders[o]).order_items ])
    + Cardinality({ r \in RawIds :
                    /\ order_history.order_history_raw[r] # None
                    /\ Val(order_history.order_history_raw[r]).patient_external_id = patient_id
                    /\ Val(order_history.order_history_raw[r]).purchase_date >= t })

\* C25: get_patient_orders returns at most limit entries, ordered by created_at
\* descending, merged from orders (queried only when patient_id has the UUID shape) and
\* order_history_raw; they are the limit most recent order items the patient has across
\* both sources; on a database error it returns the empty list, and the orchestrator
\* returns the empty list when patient_id is missing.
C25_LimitMostRecentItems ==
    order_history.returned # None =>
        \E call \in { Val(order_history.returned) } :
            /\ Len(call.entries) <= call.limit
            /\ \A i, j \in 1..Len(call.entries) :
                  i < j => call.entries[i].created_at >= call.entries[j].created_at
            /\ (call.patient_id = None \/ call.fault) => call.entries = << >>
            /\ (call.patient_id # None /\ ~call.fault) =>
                  /\ Len(call.entries) =
                        (IF C25_NoOlder(call.patient_id, 1) < call.limit
                         THEN C25_NoOlder(call.patient_id, 1) ELSE call.limit)
                  /\ \A i \in 1..Len(call.entries) :
                        /\ C25_NoOlder(call.patient_id, call.entries[i].created_at) >= i
                        /\ C25_NoOlder(call.patient_id, call.entries[i].created_at + 1) < i

\* the purchases of a medicine by the patient: day and run-out day, from the patient's
\* finalized orders (when the id has the UUID shape) and the patient's raw history
C26_Purchases(patient_id, med_name) ==
    { [ day    |-> Val(refill.orders[o]).finalized_at,
        runout |-> Val(refill.orders[o]).finalized_at
                     + (IF Val(refill.orders[o]).days_supply \in { None, Some(0) }
                        THEN 30 ELSE Val(Val(refill.orders[o]).days_supply)) ] :
        o \in { o \in HistoryOrderIds :
                  /\ is_uuid(patient_id)
                  /\ refill.orders[o] # None
                  /\ Val(refill.orders[o]).patient_id = patient_id
                  /\ Val(refill.orders[o]).status = "finalized"
                  /\ Val(refill.orders[o]).medicine_name = med_name } }
    \cup
    { [ day    |-> Val(refill.order_history_raw[r]).purchase_date,
        runout |-> Val(refill.order_history_raw[r]).purchase_date + 30 ] :
        r \in { r \in RefillRawIds :
                  /\ refill.order_history_raw[r] # None
                  /\ Val(refill.order_history_raw[r]).patient_external_id = patient_id
                  /\ Val(refill.order_history_raw[r]).product_name = med_name } }

\* C26: a medicine is returned by get_refill_candidates only if the run-out date
\* computed from the patient's most recent purchase of that medicine, across finalized
\* orders and raw history, lies between now and now + days_ahead inclusive; each medicine
\* name is listed at most once.
C26_RunOutOfMostRecentPurchase ==
    refill.returned # None =>
        \E call \in { Val(refill.returned) } :
            /\ \A i, j \in 1..Len(call.alerts) :
                  i # j => call.alerts[i].medicine_name # call.alerts[j].medicine_name
            /\ \A i \in 1..Len(call.alerts) :
                  \E latest \in C26_Purchases(call.patient_id, call.alerts[i].medicine_name) :
                      /\ \A other \in C26_Purchases(call.patient_id,
                                                    call.alerts[i].medicine_name) :
                            other.day <= latest.day
                      /\ 0 <= latest.runout
                      /\ latest.runout <= 7

\* the error of the handler's last retry was a rate-limit error, told by the words the
\* claim names
C27_RateLimited(error_msg) ==
    \E w \in { << "4", "2", "9" >>, << "q", "u", "o", "t", "a" >>,
               << "Q", "u", "o", "t", "a" >>,
               << "R", "E", "S", "O", "U", "R", "C", "E", "_", "E", "X", "H", "A", "U", "S", "T", "E", "D" >> } :
        \E i \in 1..(Len(error_msg) - Len(w) + 1) : SubSeq(error_msg, i, i + Len(w) - 1) = w

\* at most 5 tool calls, at most 3 send attempts for a message, a retry only after a
\* rate-limit error, and an answer that is the model's text or a fallback text
C27_Bounded ==
    /\ pharmacy_chat.tools_called <= 5
    /\ pharmacy_chat.sends <= 3
    /\ (pharmacy_chat.pc \in { "initial", "tool_response" } /\ pharmacy_chat.attempt > 0) =>
          C27_RateLimited(pharmacy_chat.error_msg)
    /\ pharmacy_chat.answer # None =>
          \E a \in { Val(pharmacy_chat.answer) } :
              IF a.success
              THEN a.response = << "ai_text" >> /\ a.error = None
              ELSE /\ a.response[1] \in { "fallbacks", "quota_fallbacks" }
                   /\ a.response[2] \in { "en", "hi", "mr" }
                   /\ a.error # None

\* C27, as stated: success=False whenever any step failed, a tool or the voice included
C27_AnyFailureFailsTheRequest ==
    /\ C27_Bounded
    /\ (pharmacy_chat.answer # None /\ pharmacy_chat.log # {}) =>
          ~Val(pharmacy_chat.answer).success

\* C27: every /pharmacy/chat request ends with a ChatResponse and never raises; it
\* dispatches at most 5 tool calls, makes at most 3 send attempts for each message,
\* retries only on rate-limit errors, and answers success=False with a fallback text
\* exactly when a send failed for good, the response could not be read or the prompt
\* could not be built; a tool or a voice synthesis that raises does not fail the request
C27_AlwaysAnswers ==
    /\ [](C27_Bounded
          /\ (pharmacy_chat.answer # None =>
                (Val(pharmacy_chat.answer).success <=> "chat error" \notin pharmacy_chat.log)))
    /\ (pharmacy_chat.pc # "idle") ~> (pharmacy_chat.pc = "done")

\* a request whose tool raised and whose fifth tool call was answered with text ended
\* with success
C27_Witness ==
    /\ pharmacy_chat.pc = "done"
    /\ pharmacy_chat.tools_called = 5
    /\ "tool error" \in pharmacy_chat.log
    /\ Val(pharmacy_chat.answer).success

\* the retries of a send ran out and the request ended with the quota text
C27_WitnessRetriesRanOut ==
    /\ pharmacy_chat.pc = "done"
    /\ pharmacy_chat.sends = 3
    /\ ~Val(pharmacy_chat.answer).success
    /\ Val(pharmacy_chat.answer).response[1] = "quota_fallbacks"

\* a history of even length whose messages are the user's and the model's in turn
C28_Alternating(history) ==
    /\ Len(history) % 2 = 0
    /\ \A i \in 1..Len(history) :
          history[i].role = (IF i % 2 = 1 THEN "user" ELSE "model")

\* the step of request r appended the request's message and the model's reply to the
\* history of the request's user and to no other
C28_Appended(r) ==
    /\ chat_requests[r].pc = "searching"
    /\ chat_requests'[r].pc = "voice"
    /\ chat_requests'[r].ai_text \notin { None, Some("") }
    /\ Val(chat_requests'[r].answer).response # "fallback"
    /\ \A u \in DOMAIN chat_sessions' :
          chat_sessions'[u] =
             IF u = Val(chat_requests[r].user_id)
             THEN History(chat_sessions, u)
                     \o << [ role |-> "user", parts |-> << chat_requests[r].message >> ],
                           [ role |-> "model", parts |-> << Val(chat_requests'[r].ai_text) >> ] >>
             ELSE History(chat_sessions, u)

\* no history changed in the step
C28_Unchanged ==
    \A u \in DOMAIN chat_sessions' : chat_sessions'[u] = History(chat_sessions, u)

\* C28: a user's chat history changes only by appending the user's message immediately
\* followed by the model's reply, and only when the model produced a reply (a request
\* that ends with the fallback text leaves it unchanged); so every history has even
\* length and strictly alternating roles, and a prompt holds at most the last 10
\* messages of the history
C28_HistoryOnlyGrowsByPairs ==
    /\ [][C28_Unchanged \/ \E r \in ChatRequests : C28_Appended(r)]_vars
    /\ [](/\ \A u \in DOMAIN chat_sessions : C28_Alternating(chat_sessions[u])
          /\ \A r \in ChatRequests :
                /\ Len(chat_requests[r].recent_history) <= 10
                /\ chat_requests[r].prompt # None =>
                      Len(Val(chat_requests[r].prompt).history) <= 10)
    /\ [][\A r \in ChatRequests :
             (chat_requests[r].pc = "idle" /\ chat_requests'[r].pc = "searching") =>
                \E h \in { chat_sessions'[Val(chat_requests'[r].user_id)] } :
                   \E k \in 0..10 :
                      /\ k = Len(h) \/ (k = 10 /\ Len(h) > 10)
                      /\ chat_requests'[r].recent_history = SubSeq(h, Len(h) - k + 1, Len(h))]_vars

\* a prompt was built from the last 10 messages of a longer history, while another
\* request of the same user was in progress
C28_Witness ==
    \E r \in ChatRequests :
       /\ chat_requests[r].pc = "voice"
       /\ Len(Val(chat_requests[r].prompt).history) = 10
       /\ Len(chat_sessions[Val(chat_requests[r].user_id)]) > 10
       /\ \E q \in ChatRequests \ { r } :
             /\ chat_requests[q].pc = "searching"
             /\ chat_requests[q].user_id = chat_requests[r].user_id

\* a request ended with the fallback text
C28_WitnessFallback ==
    \E r \in ChatRequests :
       /\ chat_requests[r].pc = "voice"
       /\ Val(chat_requests[r].answer).response = "fallback"

\* C29: in /analyze_health the merge of the LLM's vitals changes a field of
\* vitals_detected only when the field is absent (None); a field the regex extractor
\* populated, and risk_level, are as analyze_risk returned them
C29_OnlyAbsentFieldsChanged ==
    pc = "merged" =>
        \A c \in { C17_Constructed } :
            /\ R.risk_level = c.risk_level
            /\ \A key \in DOMAIN R.vitals_detected :
                   \/ R.vitals_detected[key] = c.vitals_detected[key]
                   \/ c.vitals_detected[key] = None

\* the texts of the rows k .. of document_chunks, one after the other
RECURSIVE C30_Joined(_, _)
C30_Joined(rows, k) ==
    IF k > Len(rows) THEN << >> ELSE rows[k].content \o C30_Joined(rows, k + 1)

\* C30: the chunks of process_document partition the extracted text: every chunk is
\* non-empty and at most chunk_size long, only the last may be shorter, the chunks in
\* order give back the full text, and document_chunks gets exactly one row per chunk,
\* the reported 'chunks' being the number of rows
C30_ChunksPartitionText ==
    document.pc = "returned" =>
        /\ \A k \in 1..Len(document.chunks) :
              /\ document.chunks[k] # << >>
              /\ Len(document.chunks[k]) <= document.chunk_size
              /\ k < Len(document.chunks) => Len(document.chunks[k]) = document.chunk_size
        /\ Len(document.document_chunks) = Len(document.chunks)
        /\ \A k \in 1..Len(document.chunks) :
              document.document_chunks[k].content = document.chunks[k]
        /\ C30_Joined(document.document_chunks, 1) = document.full_text
        /\ Val(document.returned).chunks = Len(document.document_chunks)

\* a text was split into full chunks and a shorter last one
C30_Witness ==
    /\ document.pc = "returned"
    /\ Len(document.chunks) >= 3
    /\ document.chunk_size > 1
    /\ Len(document.chunks[Len(document.chunks)]) < document.chunk_size

=============================================================================
